---------------------------- MODULE Spec2Model ----------------------------
(***************************************************************************)
(* A verification model of the aoc-2021 solutions: the shared library      *)
(* (src/lib.rs), the day-16 packet parser and evaluator, the day-15        *)
(* shortest path search, the day-12 cave path enumeration and the day-04   *)
(* bingo game.  The days are independent programs, so each has its own     *)
(* specification over its own variables; the variables of the other        *)
(* programs stay at their idle values.                                     *)
(***************************************************************************)
EXTENDS Integers, Sequences, FiniteSets, TLC

VARIABLES
    prog,        \* which program this behaviour runs
    pc,          \* position of the running program
    bytes,       \* lib.rs extract_bits / day-16: the byte slice
    start_bit,   \* lib.rs extract_bits: argument
    bit_count,   \* lib.rs extract_bits: argument
    eb_result,   \* lib.rs extract_bits: the returned Result
    overflow_checks, \* the build: TRUE when integer overflow panics (debug profile)
    bit_str,     \* lib.rs bit_str_to_u64: argument
    bs_result,   \* lib.rs bit_str_to_u64: the returned value, or the panic
    file,        \* day-02: the lines of data/day-02.txt, each a sequence of words
    commands,    \* day-02 main: the Result of parse_input
    submarine,   \* day-02: the two submarines after run
    sent,        \* day-16: the packet the transmission encodes
    parsed,      \* day-16 main: the Result of parse_transmission_packet
    evaluated,   \* day-16 main: the value of part_2::evaluate_packet
    map,         \* day-15: the RiskLevelMap the search works on
    heap,        \* day-15 shortest_path_to_bottom_right: the BinaryHeap
    finished_positions, \* day-15 shortest_path_to_bottom_right: the HashSet
    cave_lines,  \* day-12: the lines of the input, each a pair of cave ids
    part,        \* day-12: the part whose get_cave_paths is called
    cave_paths,  \* day-12: the paths get_cave_paths returned, or the abort
    boards,      \* day-04: the boards of the game
    numbers_drawn, \* day-04: the numbers in draw order
    drawn,       \* day-04 play_bingo: how many numbers the loop has taken
    bingo,       \* day-04 play_bingo: the returned product, or the panic
    boards_left, \* day-04 part_2::play_bingo: boards_left
    call_args,   \* days 05, 07, 08, 10: the arguments of the function called
    returned     \* days 05, 07, 08, 10: what the call returned, or its panic

bitsVars == <<bytes, start_bit, bit_count, eb_result>>
strVars == <<overflow_checks, bit_str, bs_result>>
parseVars == <<file, commands, submarine>>
packetVars == <<sent, parsed, evaluated>>
mapVars == <<map, heap, finished_positions>>
caveVars == <<cave_lines, part, cave_paths>>
bingoVars == <<boards, numbers_drawn, drawn, bingo, boards_left>>
callVars == <<call_args, returned>>

vars == <<prog, pc, bitsVars, strVars, parseVars, packetVars, mapVars, caveVars,
          bingoVars, callVars>>

\* the value of a variable no step has set yet
NoResult == [kind |-> "none", val |-> "none"]

IdleBits == bytes = <<>> /\ start_bit = 0 /\ bit_count = 0 /\ eb_result = NoResult
IdleStr == overflow_checks = FALSE /\ bit_str = <<>> /\ bs_result = NoResult
IdleParse == file = <<>> /\ commands = NoResult /\ submarine = NoResult
IdlePacket == sent = NoResult /\ parsed = NoResult /\ evaluated = NoResult
IdleMap == map = NoResult /\ heap = {} /\ finished_positions = {}
IdleCaves == cave_lines = <<>> /\ part = 0 /\ cave_paths = NoResult
IdleBingo ==
    /\ boards = <<>> /\ numbers_drawn = <<>> /\ drawn = 0 /\ bingo = NoResult
    /\ boards_left = 0
IdleCall == call_args = NoResult /\ returned = NoResult

\* the variables of the programs a run of one program leaves alone
libVars == <<bitsVars, strVars, parseVars, packetVars>>
IdleLib == IdleBits /\ IdleStr /\ IdleParse /\ IdlePacket

restOfBits == <<strVars, parseVars, packetVars, mapVars, caveVars, bingoVars, callVars>>
restOfStr == <<bitsVars, parseVars, packetVars, mapVars, caveVars, bingoVars, callVars>>
restOfParse ==
    <<bitsVars, bit_str, bs_result, packetVars, mapVars, caveVars, bingoVars, callVars>>
restOfPacket ==
    <<start_bit, bit_count, eb_result, strVars, parseVars, mapVars, caveVars,
      bingoVars, callVars>>
restOfMap == <<libVars, caveVars, bingoVars, callVars>>
restOfCaves == <<libVars, mapVars, bingoVars, callVars>>
restOfBingo == <<libVars, mapVars, caveVars, callVars>>
restOfCall == <<libVars, mapVars, caveVars, bingoVars>>

IdleRestOfBits == IdleStr /\ IdleParse /\ IdlePacket /\ IdleMap /\ IdleCaves /\ IdleBingo /\ IdleCall
IdleRestOfStr == IdleBits /\ IdleParse /\ IdlePacket /\ IdleMap /\ IdleCaves /\ IdleBingo /\ IdleCall
IdleRestOfParse ==
    /\ IdleBits /\ bit_str = <<>> /\ bs_result = NoResult /\ IdlePacket
    /\ IdleMap /\ IdleCaves /\ IdleBingo /\ IdleCall
IdleRestOfPacket ==
    /\ start_bit = 0 /\ bit_count = 0 /\ eb_result = NoResult /\ IdleStr /\ IdleParse
    /\ IdleMap /\ IdleCaves /\ IdleBingo /\ IdleCall
IdleRestOfMap == IdleLib /\ IdleCaves /\ IdleBingo /\ IdleCall
IdleRestOfCaves == IdleLib /\ IdleMap /\ IdleBingo /\ IdleCall
IdleRestOfBingo == IdleLib /\ IdleMap /\ IdleCaves /\ IdleCall
IdleRestOfCall == IdleLib /\ IdleMap /\ IdleCaves /\ IdleBingo

(***************************************************************************)
(* Bounds of the model.                                                    *)
(***************************************************************************)
MaxBytes == 2
MaxBitCount == 66

(***************************************************************************)
(* Machine integers.  A u64 is the sequence of its 64 binary digits, least *)
(* significant first (digit i + 1 has significance i), so that the full    *)
(* width of the type is modelled.                                          *)
(***************************************************************************)
U64_BITS == 64

U64Idx == 1 .. U64_BITS

\* a u64 from its digits
U64(digit(_)) == SubSeq([i \in U64Idx |-> digit(i)], 1, U64_BITS)

U64Zero == U64(LAMBDA i : 0)

RECURSIVE Pow2(_)
Pow2(k) == IF k = 0 THEN 1 ELSE 2 * Pow2(k - 1)

\* `x as u64` for a value x that fits a TLC integer
U64From(x) == U64(LAMBDA i : IF i <= 31 THEN (x \div Pow2(i - 1)) % 2 ELSE 0)

\* a << k on u64: the bits shifted past the top are lost
U64Shl(a, k) == U64(LAMBDA i : IF i > k THEN a[i - k] ELSE 0)

\* a | b on u64
U64Or(a, b) == U64(LAMBDA i : IF a[i] = 1 \/ b[i] = 1 THEN 1 ELSE 0)

\* the number held by the 16 digits of limb c (0 the lowest) of a u64
RECURSIVE DigitsValue(_, _, _)
DigitsValue(a, lo, n) ==
    IF n = 0 THEN 0 ELSE a[lo] + 2 * DigitsValue(a, lo + 1, n - 1)

Limb(a, c) == DigitsValue(a, 16 * c + 1, 16)

\* a + b on u64, with the carry out of the top bit; the addition is done on
\* the four 16-bit limbs
U64Add(a, b) ==
    LET s0 == Limb(a, 0) + Limb(b, 0)
        s1 == Limb(a, 1) + Limb(b, 1) + (s0 \div 65536)
        s2 == Limb(a, 2) + Limb(b, 2) + (s1 \div 65536)
        s3 == Limb(a, 3) + Limb(b, 3) + (s2 \div 65536)
        limbs == <<s0 % 65536, s1 % 65536, s2 % 65536, s3 % 65536>>
    IN  [val |-> U64(LAMBDA i : (limbs[((i - 1) \div 16) + 1] \div Pow2((i - 1) % 16)) % 2),
         carry |-> s3 \div 65536]

\* a & b on non-negative integers
RECURSIVE BitAnd(_, _)
BitAnd(a, b) ==
    IF a = 0 \/ b = 0 THEN 0
    ELSE (a % 2) * (b % 2) + 2 * BitAnd(a \div 2, b \div 2)

min(a, b) == IF a <= b THEN a ELSE b

\* the value a panicking u8 computation yields in the model
PANIC == -1

(***************************************************************************)
(* lib.rs: extract_bits_from_byte.  u8 arithmetic: a subtraction below 0   *)
(* or a shift by 8 or more panics.                                         *)
(***************************************************************************)
extract_bits_from_byte_bad(byte_value, start_bit_, bit_count_) ==
    LET bit_offset == start_bit_ % 8
        left_trim == Pow2(8 - bit_offset) - 1
        extracted == BitAnd(byte_value, left_trim)
    IN  IF 8 - bit_count_ - bit_offset < 0 THEN PANIC
        ELSE extracted \div Pow2(8 - bit_count_)

extract_bits_from_byte(byte_value, start_bit_, bit_count_) ==
    LET bit_offset == start_bit_ % 8
        left_trim == Pow2(8 - bit_offset) - 1
        extracted == IF bit_offset > 0 THEN BitAnd(byte_value, left_trim)
                     ELSE byte_value
    IN  IF 8 - bit_count_ < 0 \/ 8 - bit_count_ - bit_offset < 0 THEN PANIC
        ELSE extracted \div Pow2(8 - bit_count_ - bit_offset)

(***************************************************************************)
(* lib.rs: extract_bits.  The while loop is the recursion of               *)
(* extract_bits_loop over (byte_index, remaining_bits, bit_offset,         *)
(* extracted).                                                             *)
(***************************************************************************)
MAX_BIT_COUNT == 64

Ok(v) == [kind |-> "Ok", val |-> v]
Err(e) == [kind |-> "Err", val |-> e]
Panicked == [kind |-> "panic", val |-> "panic"]

RECURSIVE extract_bits_loop(_, _, _, _, _)
extract_bits_loop(bytes_, byte_index, remaining_bits, bit_offset, extracted) ==
    IF remaining_bits > 0
    THEN IF byte_index >= Len(bytes_) THEN Panicked
         ELSE
         LET bit_count_in_byte == min(remaining_bits, 8 - bit_offset)
             bits == extract_bits_from_byte(bytes_[byte_index + 1], bit_offset,
                                            bit_count_in_byte)
             remaining == remaining_bits - bit_count_in_byte
         IN  IF bits = PANIC \/ remaining >= U64_BITS THEN Panicked
             ELSE extract_bits_loop(bytes_, byte_index + 1, remaining, 0,
                                    U64Or(extracted, U64Shl(U64From(bits), remaining)))
    ELSE Ok(extracted)

extract_bits_swapped_checks(bytes_, start_bit_, bit_count_) ==
    LET total_bits == Len(bytes_) * 8
    IN  IF bit_count_ > MAX_BIT_COUNT THEN Err("max value for bit_count is 64")
        ELSE IF start_bit_ >= total_bits THEN Err("invalid start_bit")
        ELSE IF start_bit_ + bit_count_ > total_bits
             THEN Err("not enough bits to extract")
        ELSE extract_bits_loop(bytes_, start_bit_ \div 8, bit_count_,
                               start_bit_ % 8, U64Zero)

extract_bits(bytes_, start_bit_, bit_count_) ==
    LET total_bits == Len(bytes_) * 8
    IN  IF start_bit_ >= total_bits THEN Err("invalid start_bit")
        ELSE IF bit_count_ > MAX_BIT_COUNT THEN Err("max value for bit_count is 64")
        ELSE IF start_bit_ + bit_count_ > total_bits
             THEN Err("not enough bits to extract")
        ELSE extract_bits_loop(bytes_, start_bit_ \div 8, bit_count_,
                               start_bit_ % 8, U64Zero)

(***************************************************************************)
(* The inputs of the bit extraction runs: every slice of at most MaxBytes  *)
(* bytes over ByteVals, and two slices long enough for a 64-bit read that  *)
(* starts inside a byte.                                                   *)
(***************************************************************************)
ByteVals == {0, 210, 254}

RECURSIVE SeqsUpTo(_, _)
SeqsUpTo(S, n) ==
    IF n = 0 THEN {<<>>}
    ELSE LET shorter == SeqsUpTo(S, n - 1)
         IN  shorter \cup {Append(s, x) : s \in {t \in shorter : Len(t) = n - 1}, x \in S}

LongSlices == {<<210, 254, 40, 165, 0, 255, 19, 128, 77>>,
               <<255, 255, 255, 255, 255, 255, 255, 255, 255>>}

ByteSlices == SeqsUpTo(ByteVals, MaxBytes) \cup LongSlices

InitBits ==
    /\ prog = "bits"
    /\ pc = "call"
    /\ bytes \in ByteSlices
    /\ start_bit \in 0 .. (8 * Len(bytes) + 1)
    /\ bit_count \in 0 .. MaxBitCount
    /\ eb_result = NoResult
    /\ IdleRestOfBits

ExtractBits ==
    /\ prog = "bits"
    /\ pc = "call"
    /\ eb_result' = extract_bits(bytes, start_bit, bit_count)
    /\ pc' = "done"
    /\ UNCHANGED <<prog, bytes, start_bit, bit_count, restOfBits>>

NextBits == ExtractBits

SpecBits == InitBits /\ [][NextBits]_vars

(***************************************************************************)
(* C1.  For a request with start_bit < 8*len, bit_count <= 64 and          *)
(* start_bit + bit_count <= 8*len, extract_bits returns Ok(v) where v is   *)
(* the number whose binary digits are the bit_count bits of the slice that *)
(* start at bit start_bit, most significant first; bit 0 is the top bit of *)
(* bytes[0]; bit_count = 0 gives Ok(0).                                    *)
(***************************************************************************)
BitAt(bytes_, i) == (bytes_[(i \div 8) + 1] \div Pow2(7 - (i % 8))) % 2

BitsOfSlice(bytes_, s, n) ==
    [i \in U64Idx |-> IF i <= n THEN BitAt(bytes_, s + n - i) ELSE 0]

ValidRequest ==
    /\ start_bit < 8 * Len(bytes)
    /\ bit_count <= MAX_BIT_COUNT
    /\ start_bit + bit_count <= 8 * Len(bytes)

C1_ExtractBitsValue ==
    (prog = "bits" /\ pc = "done" /\ ValidRequest)
        => eb_result = Ok(BitsOfSlice(bytes, start_bit, bit_count))

\* a 64-bit read that starts inside a byte and spans nine bytes
C1_Witness ==
    /\ prog = "bits" /\ pc = "done"
    /\ start_bit = 3 /\ bit_count = 64 /\ Len(bytes) = 9
    /\ eb_result.kind = "Ok"
    /\ eb_result.val[U64_BITS] = 1

(***************************************************************************)
(* C2.  extract_bits rejects an invalid request with an error value and    *)
(* never panics; the checks are made in the order start_bit, bit_count,    *)
(* remaining bits.                                                         *)
(***************************************************************************)
C2_ExtractBitsErrors ==
    (prog = "bits" /\ pc = "done") =>
        /\ eb_result.kind # "panic"
        /\ IF start_bit >= 8 * Len(bytes)
           THEN eb_result = Err("invalid start_bit")
           ELSE IF bit_count > 64
           THEN eb_result = Err("max value for bit_count is 64")
           ELSE IF start_bit + bit_count > 8 * Len(bytes)
           THEN eb_result = Err("not enough bits to extract")
           ELSE eb_result.kind = "Ok"

\* a request that fails the first two checks is reported by the first
C2_Witness ==
    /\ prog = "bits" /\ pc = "done"
    /\ Len(bytes) = 0 /\ bit_count > 64
    /\ eb_result = Err("invalid start_bit")

(***************************************************************************)
(* lib.rs: bit_str_to_u64.  value and addition_term are u64; an addition   *)
(* or multiplication that leaves the type panics in a build with overflow  *)
(* checks and wraps in a build without them.                               *)
(***************************************************************************)
MaxShortLen == 4

IsWhitespace(ch) == ch \in {" ", "\t", "\n", "\r"}

RECURSIVE trim_start(_)
trim_start(s) ==
    IF s # <<>> /\ IsWhitespace(Head(s)) THEN trim_start(Tail(s)) ELSE s

RECURSIVE trim_end(_)
trim_end(s) ==
    IF s # <<>> /\ IsWhitespace(s[Len(s)])
    THEN trim_end(SubSeq(s, 1, Len(s) - 1)) ELSE s

trim(s) == trim_end(trim_start(s))

Value(v, w) == [kind |-> "Ok", val |-> v, wrapped |-> w]

\* the for loop over bit_str.chars().rev(): k is the index of the next char
RECURSIVE bit_str_loop(_, _, _, _, _, _)
bit_str_loop(chars, k, value, addition_term, checks, wrapped) ==
    IF k = 0 THEN Value(value, wrapped)
    ELSE LET sum == IF chars[k] = "1" THEN U64Add(value, addition_term)
                    ELSE [val |-> value, carry |-> 0]
             twice == U64Add(addition_term, addition_term)
             over == sum.carry = 1 \/ twice.carry = 1
         IN  IF over /\ checks THEN Panicked
             ELSE bit_str_loop(chars, k - 1, sum.val, twice.val, checks,
                               wrapped \/ over)

bit_str_to_u64(bit_str_, checks) ==
    LET s == trim(bit_str_)
    IN  IF Len(s) = 0 THEN Value(U64Zero, FALSE)
        ELSE bit_str_loop(s, Len(s), U64Zero, U64From(1), checks, FALSE)

\* the strings of the runs: every string of at most MaxShortLen digits, and
\* four patterns of every length up to the width of the result
Patterns == {"ones", "top", "low", "alt"}

PatternStr(n, p) ==
    [i \in 1 .. n |->
        CASE p = "ones" -> "1"
          [] p = "top" -> IF i = 1 THEN "1" ELSE "0"
          [] p = "low" -> IF i = n THEN "1" ELSE "0"
          [] OTHER -> IF i % 2 = 1 THEN "1" ELSE "0"]

BitStrings ==
    SeqsUpTo({"0", "1"}, MaxShortLen)
        \cup {PatternStr(n, p) : n \in (MaxShortLen + 1) .. U64_BITS, p \in Patterns}

InitStr ==
    /\ prog = "bitstr"
    /\ pc = "call"
    /\ overflow_checks \in BOOLEAN
    /\ bit_str \in BitStrings
    /\ bs_result = NoResult
    /\ IdleRestOfStr

BitStrToU64 ==
    /\ prog = "bitstr"
    /\ pc = "call"
    /\ bs_result' = bit_str_to_u64(bit_str, overflow_checks)
    /\ pc' = "done"
    /\ UNCHANGED <<prog, overflow_checks, bit_str, restOfStr>>

NextStr == BitStrToU64

SpecStr == InitStr /\ [][NextStr]_vars

\* the string read as a binary numeral, most significant digit first
BinValue(s) ==
    [i \in U64Idx |-> IF i <= Len(s) /\ s[Len(s) - i + 1] = "1" THEN 1 ELSE 0]

(***************************************************************************)
(* C9.  For every string of '0' and '1' of length 0 to 64, bit_str_to_u64  *)
(* returns the value of the string as a binary numeral, and the call       *)
(* completes without arithmetic overflow.                                  *)
(***************************************************************************)
C9_BitStrValue ==
    (prog = "bitstr" /\ pc = "done" /\ Len(bit_str) <= U64_BITS) =>
        /\ bs_result.kind = "Ok"
        /\ ~bs_result.wrapped
        /\ bs_result.val = BinValue(bit_str)

\* what the code does keep: below the width of the result nothing overflows,
\* and a build without overflow checks returns the value at every length
BitStrBelowWidth ==
    (prog = "bitstr" /\ pc = "done") =>
        /\ Len(bit_str) < U64_BITS => C9_BitStrValue
        /\ ~overflow_checks =>
              (bs_result.kind = "Ok" /\ bs_result.val = BinValue(bit_str))
        /\ Len(bit_str) = U64_BITS =>
              IF overflow_checks THEN bs_result = Panicked ELSE bs_result.wrapped

(***************************************************************************)
(* day-02.rs and lib.rs parse_input.  A line of the file is the sequence   *)
(* of its whitespace-separated words (a blank line is the empty            *)
(* sequence); the file may be missing.  A u32 is kept as an integer        *)
(* congruent to it modulo 2^32: a checked build panics when it leaves the  *)
(* type, an unchecked build goes on with the wrapped value.                *)
(***************************************************************************)
MaxLines == 3

\* str::parse::<u32> on the words the runs use
U32Words == ("10" :> 10) @@ ("8" :> 8) @@ ("2" :> 2)

parse_u32(w) == IF w \in DOMAIN U32Words THEN Ok(U32Words[w]) ELSE Err("ParseIntError")

Command(name, v) == [cmd |-> name, value |-> v]

from_str(s) ==
    IF Len(s) < 2 THEN Panicked
    ELSE LET value == parse_u32(s[2])
         IN  IF value.kind # "Ok" THEN Panicked
             ELSE CASE s[1] = "forward" -> Ok(Command("Forward", value.val))
                    [] s[1] = "down" -> Ok(Command("Down", value.val))
                    [] s[1] = "up" -> Ok(Command("Up", value.val))
                    [] OTHER -> Err("()")

\* the filter_map closure over the lines, collected
RECURSIVE parse_lines(_, _, _)
parse_lines(lines, i, acc) ==
    IF i > Len(lines) THEN Ok(acc)
    ELSE IF lines[i] = <<>> THEN parse_lines(lines, i + 1, acc)
    ELSE LET r == from_str(lines[i])
         IN  IF r.kind = "panic" THEN Panicked
             ELSE IF r.kind = "Ok" THEN parse_lines(lines, i + 1, Append(acc, r.val))
             ELSE parse_lines(lines, i + 1, acc)

parse_input(f) ==
    IF ~f.exists THEN Err("io::Error") ELSE parse_lines(f.lines, 1, <<>>)

\* part_1::Submarine::apply_command over the commands
RECURSIVE run_1(_, _, _, _)
run_1(cmds, i, sub, checks) ==
    IF i > Len(cmds) THEN Ok(sub)
    ELSE LET c == cmds[i]
             next == CASE c.cmd = "Forward" -> [sub EXCEPT !.position = @ + c.value]
                       [] c.cmd = "Down" -> [sub EXCEPT !.depth = @ + c.value]
                       [] OTHER -> [sub EXCEPT !.depth = @ - c.value]
         IN  IF checks /\ next.depth < 0 THEN Panicked
             ELSE run_1(cmds, i + 1, next, checks)

\* part_2::Submarine::apply_command over the commands
RECURSIVE run_2(_, _, _, _)
run_2(cmds, i, sub, checks) ==
    IF i > Len(cmds) THEN Ok(sub)
    ELSE LET c == cmds[i]
             next == CASE c.cmd = "Forward" ->
                            [sub EXCEPT !.position = @ + c.value,
                                        !.depth = @ + c.value * sub.aim]
                       [] c.cmd = "Down" -> [sub EXCEPT !.aim = @ + c.value]
                       [] OTHER -> [sub EXCEPT !.aim = @ - c.value]
         IN  IF checks /\ (next.aim < 0 \/ next.depth < 0) THEN Panicked
             ELSE run_2(cmds, i + 1, next, checks)

Day02Lines == {<<"forward", "10">>, <<"down", "8">>, <<"up", "2">>, <<>>,
               <<"jump", "2">>, <<"up", "x">>, <<"forward">>}

Day02Files ==
    {[exists |-> TRUE, lines |-> l] : l \in SeqsUpTo(Day02Lines, MaxLines)}
        \cup {[exists |-> FALSE, lines |-> <<>>]}

InitParse ==
    /\ prog = "day02"
    /\ pc = "main"
    /\ file \in Day02Files
    /\ overflow_checks \in BOOLEAN
    /\ commands = NoResult
    /\ submarine = NoResult
    /\ IdleRestOfParse

\* main: parse_input, then panic! on Err
ParseInput ==
    /\ prog = "day02"
    /\ pc = "main"
    /\ commands' = parse_input(file)
    /\ pc' = IF commands'.kind = "Ok" THEN "parsed" ELSE "aborted"
    /\ UNCHANGED <<prog, file, submarine, overflow_checks, restOfParse>>

\* main: part_1::run and part_2::run on the parsed commands
Run ==
    /\ prog = "day02"
    /\ pc = "parsed"
    /\ LET r1 == run_1(commands.val, 1, [position |-> 0, depth |-> 0], overflow_checks)
           r2 == run_2(commands.val, 1, [position |-> 0, depth |-> 0, aim |-> 0],
                       overflow_checks)
       IN  IF r1.kind = "Ok" /\ r2.kind = "Ok"
           THEN submarine' = Ok(<<r1.val, r2.val>>) /\ pc' = "done"
           ELSE submarine' = Panicked /\ pc' = "aborted"
    /\ UNCHANGED <<prog, file, commands, overflow_checks, restOfParse>>

NextParse == ParseInput \/ Run

SpecParse == InitParse /\ [][NextParse]_vars

\* a non-blank line that does not parse as a Command
Malformed(line) == line # <<>> /\ from_str(line).kind # "Ok"

NonBlank(lines) == {i \in 1 .. Len(lines) : lines[i] # <<>>}

(***************************************************************************)
(* C3.  When a non-blank line of the input fails to parse as T, the run    *)
(* that reads it through parse_input aborts; parse_input never returns Ok  *)
(* with a vector from which such a line was left out.                      *)
(***************************************************************************)
C3_MalformedAborts ==
    (prog = "day02" /\ pc # "main" /\ file.exists) =>
        /\ (\E i \in 1 .. Len(file.lines) : Malformed(file.lines[i])) => pc = "aborted"
        /\ commands.kind = "Ok" => Len(commands.val) = Cardinality(NonBlank(file.lines))

(***************************************************************************)
(* day-16.rs: the packet parser.  A parse either returns or panics (every  *)
(* extract_bits result is unwrapped).                                      *)
(***************************************************************************)
LITERAL_VALUE_TYPE_ID == 4

MaxGroups == 2
MaxSubs == 2

\* `v as usize`, `v as u8` for a u64 whose value fits a TLC integer
U64ToNat(v) == Limb(v, 0) + 65536 * Limb(v, 1)

U64Not(v) == U64(LAMBDA i : 1 - v[i])

\* `v as i64`: the same 64 bits read in two's complement
AsI64(v) ==
    IF v[U64_BITS] = 0 THEN U64ToNat(v) ELSE 0 - U64ToNat(U64Not(v)) - 1

LiteralValue(v) == [kind |-> "LiteralValue", value |-> v]
Operator(subpackets) == [kind |-> "Operator", subpackets |-> subpackets]

TransmissionPacket(version, type_id, payload) ==
    [version |-> version, type_id |-> type_id, payload |-> payload]

ParseResult(value, bits_read) == Ok([value |-> value, bits_read |-> bits_read])

\* the while loop of parse_literal_value_payload
RECURSIVE literal_groups(_, _, _, _)
literal_groups(bytes_, group_start_bit, bits_read, value) ==
    LET r == extract_bits(bytes_, group_start_bit, 5)
    IN  IF r.kind # "Ok" THEN Panicked
        ELSE LET group_bits == U64ToNat(r.val)
                 partial_value == BitAnd(group_bits, 15)
                 next == U64Add(U64Shl(value, 4), U64From(partial_value)).val
             IN  IF group_bits \div 16 = 1
                 THEN literal_groups(bytes_, group_start_bit + 5, bits_read + 5, next)
                 ELSE ParseResult(LiteralValue(next), bits_read + 5)

parse_literal_value_payload_bad(bytes_, start_bit_) ==
    LET r == literal_groups(bytes_, start_bit_, 0, U64Zero)
    IN  IF r.kind # "Ok" THEN r
        ELSE ParseResult(r.val.value, r.val.bits_read - 1)

parse_literal_value_payload(bytes_, start_bit_) ==
    literal_groups(bytes_, start_bit_, 0, U64Zero)

RECURSIVE parse_transmission_packet(_, _)
RECURSIVE parse_operator_payload(_, _)
RECURSIVE subpackets_by_length(_, _, _, _, _, _)
RECURSIVE subpackets_by_count(_, _, _, _, _, _, _)

\* mode 0: the loop `while subpacket_bits_read < subpackets_bit_length`
subpackets_by_length(bytes_, start_bit_, bits_read, subpacket_bits_read,
                     subpackets_bit_length, subpackets) ==
    IF subpacket_bits_read < subpackets_bit_length
    THEN LET result == parse_transmission_packet(
                           bytes_, start_bit_ + bits_read + subpacket_bits_read)
         IN  IF result.kind # "Ok" THEN Panicked
             ELSE subpackets_by_length(bytes_, start_bit_, bits_read,
                      subpacket_bits_read + result.val.bits_read,
                      subpackets_bit_length, Append(subpackets, result.val.value))
    ELSE ParseResult(Operator(subpackets), bits_read + subpacket_bits_read)

\* mode 1: the loop `while subpackets_read < subpacket_count`
subpackets_by_count(bytes_, start_bit_, bits_read, subpackets_read,
                    subpacket_bits_read, subpacket_count, subpackets) ==
    IF subpackets_read < subpacket_count
    THEN LET result == parse_transmission_packet(
                           bytes_, start_bit_ + bits_read + subpacket_bits_read)
         IN  IF result.kind # "Ok" THEN Panicked
             ELSE subpackets_by_count(bytes_, start_bit_, bits_read,
                      subpackets_read + 1,
                      subpacket_bits_read + result.val.bits_read,
                      subpacket_count, Append(subpackets, result.val.value))
    ELSE ParseResult(Operator(subpackets), bits_read + subpacket_bits_read)

parse_operator_payload(bytes_, start_bit_) ==
    LET mode == extract_bits(bytes_, start_bit_, 1)
    IN  IF mode.kind # "Ok" THEN Panicked
        ELSE IF U64ToNat(mode.val) = 0
        THEN LET len == extract_bits(bytes_, start_bit_ + 1, 15)
             IN  IF len.kind # "Ok" THEN Panicked
                 ELSE subpackets_by_length(bytes_, start_bit_, 1 + 15, 0,
                                           U64ToNat(len.val), <<>>)
        ELSE LET count == extract_bits(bytes_, start_bit_ + 1, 11)
             IN  IF count.kind # "Ok" THEN Panicked
                 ELSE subpackets_by_count(bytes_, start_bit_, 1 + 11, 0, 0,
                                          U64ToNat(count.val), <<>>)

parse_transmission_packet(bytes_, start_bit_) ==
    LET version == extract_bits(bytes_, start_bit_, 3)
        type_id == extract_bits(bytes_, start_bit_ + 3, 3)
    IN  IF version.kind # "Ok" \/ type_id.kind # "Ok" THEN Panicked
        ELSE LET result ==
                     IF U64ToNat(type_id.val) = LITERAL_VALUE_TYPE_ID
                     THEN parse_literal_value_payload(bytes_, start_bit_ + 6)
                     ELSE parse_operator_payload(bytes_, start_bit_ + 6)
             IN  IF result.kind # "Ok" THEN Panicked
                 ELSE ParseResult(
                          TransmissionPacket(U64ToNat(version.val),
                                             U64ToNat(type_id.val), result.val.value),
                          6 + result.val.bits_read)

\* part_1::add_all_packet_versions
RECURSIVE add_all_packet_versions(_)
RECURSIVE add_versions_from(_, _, _)
add_versions_from(subpackets, i, subpacket_sum) ==
    IF i > Len(subpackets) THEN subpacket_sum
    ELSE add_versions_from(subpackets, i + 1,
                           subpacket_sum + add_all_packet_versions(subpackets[i]))

add_all_packet_versions(packet) ==
    IF packet.payload.kind = "LiteralValue" THEN packet.version
    ELSE add_versions_from(packet.payload.subpackets, 1, packet.version)

(***************************************************************************)
(* day-16.rs part_2: Operation::try_from and evaluate_packet.  The         *)
(* sub-packet values come from a lazy iterator: sum, product, min and max  *)
(* consume all of it, a comparison only its first two items.               *)
(***************************************************************************)
Operation_try_from_bad(value) ==
    CASE value = 0 -> Ok("Sum")
      [] value = 1 -> Ok("Product")
      [] value = 2 -> Ok("Minimum")
      [] value = 3 -> Ok("Maximum")
      [] value = 5 -> Ok("LessThan")
      [] value = 6 -> Ok("GreaterThan")
      [] value = 7 -> Ok("EqualTo")
      [] OTHER -> Err("Value does not designate a valid Operation")

Operation_try_from(value) ==
    CASE value = 0 -> Ok("Sum")
      [] value = 1 -> Ok("Product")
      [] value = 2 -> Ok("Minimum")
      [] value = 3 -> Ok("Maximum")
      [] value = 5 -> Ok("GreaterThan")
      [] value = 6 -> Ok("LessThan")
      [] value = 7 -> Ok("EqualTo")
      [] OTHER -> Err("Value does not designate a valid Operation")

RECURSIVE evaluate_packet(_)
RECURSIVE consume(_, _, _, _)

\* the iterator consumed from item i on by sum, product, min or max; acc is
\* the Option accumulated so far
consume(subpackets, i, operation, acc) ==
    IF i > Len(subpackets) THEN acc
    ELSE LET v == evaluate_packet(subpackets[i])
         IN  IF v.kind # "Ok" THEN Panicked
             ELSE consume(subpackets, i + 1, operation,
                    IF acc.kind = "None" THEN Ok(v.val)
                    ELSE CASE operation = "Sum" -> Ok(acc.val + v.val)
                           [] operation = "Product" -> Ok(acc.val * v.val)
                           [] operation = "Minimum" ->
                                  Ok(IF v.val < acc.val THEN v.val ELSE acc.val)
                           [] OTHER ->
                                  Ok(IF v.val >= acc.val THEN v.val ELSE acc.val))

None == [kind |-> "None", val |-> "None"]

\* evaluated_subpackets.nth(0).unwrap() with i - 1 items already consumed
nth_0_unwrap(subpackets, i) ==
    IF i > Len(subpackets) THEN Panicked ELSE evaluate_packet(subpackets[i])

evaluate_packet(packet) ==
    IF packet.payload.kind = "LiteralValue" THEN Ok(AsI64(packet.payload.value))
    ELSE LET operation == Operation_try_from(packet.type_id)
             subpackets == packet.payload.subpackets
         IN  IF operation.kind # "Ok" THEN Panicked
             ELSE IF operation.val = "Sum" THEN consume(subpackets, 1, "Sum", Ok(0))
             ELSE IF operation.val = "Product"
                  THEN consume(subpackets, 1, "Product", Ok(1))
             ELSE IF operation.val \in {"Minimum", "Maximum"}
                  THEN LET r == consume(subpackets, 1, operation.val, None)
                       IN  IF r.kind = "None" THEN Panicked ELSE r
             ELSE LET first == nth_0_unwrap(subpackets, 1)
                      second == nth_0_unwrap(subpackets, 2)
                  IN  IF first.kind # "Ok" \/ second.kind # "Ok" THEN Panicked
                      ELSE CASE operation.val = "GreaterThan" ->
                                    Ok(IF first.val > second.val THEN 1 ELSE 0)
                             [] operation.val = "LessThan" ->
                                    Ok(IF first.val < second.val THEN 1 ELSE 0)
                             [] OTHER ->
                                    Ok(IF first.val = second.val THEN 1 ELSE 0)

(***************************************************************************)
(* The transmissions of the runs: well-formed packets, written out bit by  *)
(* bit as the format prescribes and packed into bytes (zero padded, as the *)
(* hexadecimal input is).  A packet is described by its version, its type  *)
(* and either its 4-bit groups or its length type and sub-packets.         *)
(***************************************************************************)
Nibbles == {0, 9}

LitGroups == SeqsUpTo(Nibbles, MaxGroups) \ {<<>>}

Lit(version, groups) ==
    [version |-> version, type_id |-> LITERAL_VALUE_TYPE_ID, groups |-> groups]

Op(version, type_id, mode, subs) ==
    [version |-> version, type_id |-> type_id, mode |-> mode, subs |-> subs]

OpTypes == {0, 1, 2, 3, 5, 6, 7}

OperatorsOver(version, types, pool) ==
    {Op(version, t, m, s) : t \in types, m \in {0, 1},
                      s \in SeqsUpTo(pool, MaxSubs)}

Literals == {Lit(6, g) : g \in LitGroups}

FlatPool == {Lit(6, <<9>>), Lit(7, <<0>>), Lit(4, <<0, 9>>), Lit(1, <<9, 0>>)}

FlatOperators == OperatorsOver(1, OpTypes, FlatPool)

InnerPool ==
    {Lit(6, <<9>>), Lit(2, <<0>>),
     Op(1, 0, 0, <<Lit(7, <<9>>), Lit(6, <<0>>)>>),
     Op(2, 6, 1, <<Lit(7, <<0>>), Lit(6, <<9, 0>>)>>),
     Op(4, 1, 1, <<Lit(0, <<9>>), Lit(3, <<0, 9>>)>>)}

NestedOperators == OperatorsOver(3, {0, 1, 2, 5, 7}, InnerPool)

DeepPool ==
    {Lit(5, <<9>>),
     Op(3, 0, 1, <<Op(1, 6, 0, <<Lit(7, <<0>>), Lit(6, <<9>>)>>), Lit(2, <<9>>)>>),
     Op(0, 7, 0, <<Lit(4, <<9>>), Op(1, 3, 1, <<Lit(7, <<9>>), Lit(6, <<0>>)>>)>>)}

DeepOperators == OperatorsOver(5, {3, 5, 6}, DeepPool)

Transmissions == Literals \cup FlatOperators \cup NestedOperators \cup DeepOperators

\* n written in w binary digits, most significant first
Bits(n, w) == [i \in 1 .. w |-> (n \div Pow2(w - i)) % 2]

RECURSIVE EncodeGroups(_, _)
EncodeGroups(groups, i) ==
    IF i > Len(groups) THEN <<>>
    ELSE <<IF i < Len(groups) THEN 1 ELSE 0>> \o Bits(groups[i], 4)
             \o EncodeGroups(groups, i + 1)

RECURSIVE Encode(_)
RECURSIVE EncodeAll(_, _)
EncodeAll(subs, i) ==
    IF i > Len(subs) THEN <<>> ELSE Encode(subs[i]) \o EncodeAll(subs, i + 1)

Encode(d) ==
    IF d.type_id = LITERAL_VALUE_TYPE_ID
    THEN Bits(d.version, 3) \o Bits(d.type_id, 3) \o EncodeGroups(d.groups, 1)
    ELSE LET body == EncodeAll(d.subs, 1)
         IN  Bits(d.version, 3) \o Bits(d.type_id, 3) \o <<d.mode>>
                 \o (IF d.mode = 0 THEN Bits(Len(body), 15) ELSE Bits(Len(d.subs), 11))
                 \o body

Pack(bits) ==
    LET bit(i) == IF i <= Len(bits) THEN bits[i] ELSE 0
        n == (Len(bits) + 7) \div 8
    IN  SubSeq([k \in 1 .. n |->
            128 * bit(8 * k - 7) + 64 * bit(8 * k - 6) + 32 * bit(8 * k - 5)
          + 16 * bit(8 * k - 4) + 8 * bit(8 * k - 3) + 4 * bit(8 * k - 2)
          + 2 * bit(8 * k - 1) + bit(8 * k)], 1, n)

InitPacket ==
    /\ prog = "day16"
    /\ pc = "main"
    /\ sent \in Transmissions
    /\ \E bits \in {Encode(sent)} : bytes = Pack(bits)
    /\ parsed = NoResult
    /\ evaluated = NoResult
    /\ IdleRestOfPacket

\* main: parse_transmission_packet(&bytes, 0).unwrap()
Parse ==
    /\ prog = "day16"
    /\ pc = "main"
    /\ parsed' = parse_transmission_packet(bytes, 0)
    /\ pc' = IF parsed'.kind = "Ok" THEN "parsed" ELSE "aborted"
    /\ UNCHANGED <<prog, bytes, sent, evaluated, restOfPacket>>

\* main: part_1::add_all_packet_versions, then part_2::evaluate_packet
Evaluate ==
    /\ prog = "day16"
    /\ pc = "parsed"
    /\ LET r == evaluate_packet(parsed.val.value)
       IN  /\ evaluated' =
                 IF r.kind = "Ok"
                 THEN Ok([version_sum |-> add_all_packet_versions(parsed.val.value),
                          value |-> r.val])
                 ELSE Panicked
           /\ pc' = IF r.kind = "Ok" THEN "done" ELSE "aborted"
    /\ UNCHANGED <<prog, bytes, sent, parsed, restOfPacket>>

NextPacket == Parse \/ Evaluate

SpecPacket == InitPacket /\ [][NextPacket]_vars

(***************************************************************************)
(* C4.  For every well-formed packet, parse_transmission_packet returns    *)
(* the packet tree of the nested format together with bits_read equal to   *)
(* the number of bits the packet occupies; for length type 0 the           *)
(* sub-packets' bits sum to the declared length.                           *)
(***************************************************************************)
\* the value of a literal: its groups as hexadecimal digits
GroupsValue(groups) ==
    [i \in U64Idx |->
        IF (i - 1) \div 4 < Len(groups)
        THEN (groups[Len(groups) - ((i - 1) \div 4)] \div Pow2((i - 1) % 4)) % 2
        ELSE 0]

RECURSIVE TreeOf(_)
TreeOf(d) ==
    IF d.type_id = LITERAL_VALUE_TYPE_ID
    THEN TransmissionPacket(d.version, d.type_id, LiteralValue(GroupsValue(d.groups)))
    ELSE TransmissionPacket(d.version, d.type_id,
                            Operator([i \in 1 .. Len(d.subs) |-> TreeOf(d.subs[i])]))

\* the number the slice holds in the w bits from bit s on
RECURSIVE FieldAt(_, _, _)
FieldAt(bytes_, s, w) ==
    IF w = 0 THEN 0 ELSE 2 * FieldAt(bytes_, s, w - 1) + BitAt(bytes_, s + w - 1)

RECURSIVE SumBitsRead(_, _)
SumBitsRead(subs, i) ==
    IF i > Len(subs) THEN 0 ELSE Len(Encode(subs[i])) + SumBitsRead(subs, i + 1)

C4_ParseTree ==
    (prog = "day16" /\ pc # "main") =>
        /\ parsed = ParseResult(TreeOf(sent), Len(Encode(sent)))
        /\ (sent.type_id # LITERAL_VALUE_TYPE_ID /\ sent.mode = 0) =>
              /\ SumBitsRead(sent.subs, 1) = FieldAt(bytes, 7, 15)
              /\ parsed.val.bits_read = 6 + 1 + 15 + FieldAt(bytes, 7, 15)

\* an operator of length type 0 that holds an operator of length type 1 and a
\* literal of two groups was parsed
C4_Witness ==
    /\ prog = "day16" /\ pc = "parsed"
    /\ sent.type_id # LITERAL_VALUE_TYPE_ID /\ sent.mode = 0
    /\ Len(sent.subs) = 2
    /\ sent.subs[1].type_id # LITERAL_VALUE_TYPE_ID /\ sent.subs[1].mode = 1
    /\ parsed.kind = "Ok"
    /\ Len(parsed.val.value.payload.subpackets) = 2
    /\ parsed.val.value.payload.subpackets[1].payload.kind = "Operator"

(***************************************************************************)
(* C8.  evaluate_packet returns the literal's value for a literal, and for *)
(* an operator applies the operation of its type_id to the values of its   *)
(* sub-packets in order: 0 sum, 1 product, 2 minimum, 3 maximum, 5         *)
(* greater than, 6 less than, 7 equal to (1 or 0), recursively.            *)
(***************************************************************************)
RECURSIVE SumOf(_, _)
SumOf(vals, i) == IF i > Len(vals) THEN 0 ELSE vals[i] + SumOf(vals, i + 1)

RECURSIVE ProductOf(_, _)
ProductOf(vals, i) == IF i > Len(vals) THEN 1 ELSE vals[i] * ProductOf(vals, i + 1)

RECURSIVE PacketValue(_)
PacketValue(p) ==
    IF p.payload.kind = "LiteralValue" THEN U64ToNat(p.payload.value)
    ELSE LET subs == p.payload.subpackets
             vals == [i \in 1 .. Len(subs) |-> PacketValue(subs[i])]
             all == {vals[i] : i \in 1 .. Len(vals)}
         IN  CASE p.type_id = 0 -> SumOf(vals, 1)
               [] p.type_id = 1 -> ProductOf(vals, 1)
               [] p.type_id = 2 -> CHOOSE m \in all : \A x \in all : m <= x
               [] p.type_id = 3 -> CHOOSE m \in all : \A x \in all : m >= x
               [] p.type_id = 5 -> IF vals[1] > vals[2] THEN 1 ELSE 0
               [] p.type_id = 6 -> IF vals[1] < vals[2] THEN 1 ELSE 0
               [] p.type_id = 7 -> IF vals[1] = vals[2] THEN 1 ELSE 0

\* the operation has the operands it needs, at every level
RECURSIVE HasOperands(_)
HasOperands(p) ==
    \/ p.payload.kind = "LiteralValue"
    \/ /\ \A i \in 1 .. Len(p.payload.subpackets) : HasOperands(p.payload.subpackets[i])
       /\ p.type_id \in {2, 3} => Len(p.payload.subpackets) >= 1
       /\ p.type_id \in {5, 6, 7} => Len(p.payload.subpackets) >= 2

C8_EvaluatePacket ==
    (prog = "day16" /\ pc \in {"done", "aborted"} /\ parsed.kind = "Ok"
        /\ HasOperands(parsed.val.value))
        => /\ evaluated.kind = "Ok"
           /\ evaluated.val.value = PacketValue(parsed.val.value)

\* a comparison of an operator's value with a literal's came out true
C8_Witness ==
    /\ prog = "day16" /\ pc = "done"
    /\ parsed.val.value.type_id = 5
    /\ Len(parsed.val.value.payload.subpackets) = 2
    /\ parsed.val.value.payload.subpackets[1].payload.kind = "Operator"
    /\ evaluated.val.value = 1

(***************************************************************************)
(* day-15: shortest_path_to_bottom_right, one step per iteration of its    *)
(* while loop.  The BinaryHeap is the set of the NodeInfo clones pushed    *)
(* and not yet popped: a node is pushed only when its distance strictly    *)
(* decreases, so no two clones in the heap are equal.                      *)
(***************************************************************************)
MaxCells == 9

\* usize::MAX, the distance of a node not reached yet; no sum of costs the
\* search forms comes near it
USIZE_MAX == 2147483647

Position(row, col) == [row |-> row, col |-> col]

NodeInfo(position, edge_cost, dist_from_src) ==
    [position |-> position, edge_cost |-> edge_cost, dist_from_src |-> dist_from_src]

RiskLevelMap(nodes) ==
    [nodes |-> nodes,
     width |-> Cardinality({p.col : p \in DOMAIN nodes}),
     height |-> Cardinality({p.row : p \in DOMAIN nodes})]

\* parse_input of day-15: rows of digits to the map, every distance usize::MAX
day15_parse_input(rows) ==
    RiskLevelMap([p \in {Position(r, c) : r \in 0 .. Len(rows) - 1,
                                          c \in 0 .. Len(rows[1]) - 1} |->
                      NodeInfo(p, rows[p.row + 1][p.col + 1], USIZE_MAX)])

\* Ord for Position (derived): by row, then by col
position_cmp_less(p, q) == p.row < q.row \/ (p.row = q.row /\ p.col < q.col)

\* Ord for NodeInfo: a is Greater than b
node_info_greater(a, b) ==
    \/ a.dist_from_src < b.dist_from_src
    \/ /\ a.dist_from_src = b.dist_from_src
       /\ position_cmp_less(b.position, a.position)

\* a heap that hands out the node of the largest distance first
heap_pop_farthest(heap_) ==
    CHOOSE n \in heap_ : \A m \in heap_ \ {n} : node_info_greater(m, n)

\* BinaryHeap::pop: the greatest element
heap_pop(heap_) ==
    CHOOSE n \in heap_ : \A m \in heap_ \ {n} : node_info_greater(n, m)

candidate_neighbors(map_, position, finished) ==
    LET left == IF position.col > 0
                THEN <<Position(position.row, position.col - 1)>> ELSE <<>>
        top == IF position.row > 0
               THEN <<Position(position.row - 1, position.col)>> ELSE <<>>
        right == IF position.col < map_.width - 1
                 THEN <<Position(position.row, position.col + 1)>> ELSE <<>>
        bottom == IF position.row < map_.height - 1
                  THEN <<Position(position.row + 1, position.col)>> ELSE <<>>
        unfinished(candidate) == candidate \notin finished
    IN  SelectSeq(left \o top \o right \o bottom, unfinished)

\* the for loop over the neighbours of the popped node; search is the map,
\* the heap and whether the function has returned
RECURSIVE relax_neighbors(_, _, _, _, _)
relax_neighbors(search, neighbor_positions, i, curr_node_info, end_pos) ==
    IF i > Len(neighbor_positions) THEN search
    ELSE LET neighbor_position == neighbor_positions[i]
             neighbor_info == search.map.nodes[neighbor_position]
             cmp_dist == curr_node_info.dist_from_src + neighbor_info.edge_cost
         IN  IF neighbor_info.dist_from_src > cmp_dist
             THEN LET relaxed == [neighbor_info EXCEPT !.dist_from_src = cmp_dist]
                      pushed ==
                          [map |-> [search.map EXCEPT
                                        !.nodes[neighbor_position] = relaxed],
                           heap |-> search.heap \cup {relaxed},
                           returned |-> neighbor_info.position = end_pos]
                  IN  IF pushed.returned THEN pushed
                      ELSE relax_neighbors(pushed, neighbor_positions, i + 1,
                                           curr_node_info, end_pos)
             ELSE relax_neighbors(search, neighbor_positions, i + 1,
                                  curr_node_info, end_pos)

CostSets == {{1, 9}, {0, 2}, {1, 2}}

Shapes == {s \in (1 .. MaxCells) \X (1 .. MaxCells) : s[1] * s[2] <= MaxCells}

\* a map whose cheapest path has to turn up and left
WindingRows == <<<<1, 9, 1, 1, 1>>, <<1, 9, 1, 9, 1>>, <<1, 1, 1, 9, 1>>,
                 <<9, 9, 9, 9, 1>>>>

RiskLevelRows ==
    UNION {[1 .. s[1] -> [1 .. s[2] -> costs]] : s \in Shapes, costs \in CostSets}
    \cup {WindingRows}

InitMap ==
    /\ prog = "day15"
    /\ pc = "called"
    /\ \E rows \in RiskLevelRows : map = day15_parse_input(rows)
    /\ heap = {}
    /\ finished_positions = {}
    /\ IdleRestOfMap

EndPos == Position(map.height - 1, map.width - 1)

\* lines 136-144: the source node gets distance 0 and is pushed
Begin ==
    /\ prog = "day15"
    /\ pc = "called"
    /\ map' = [map EXCEPT !.nodes[Position(0, 0)].dist_from_src = 0]
    /\ heap' = {map'.nodes[Position(0, 0)]}
    /\ pc' = "loop"
    /\ UNCHANGED <<prog, finished_positions, restOfMap>>

\* one iteration of the while loop: pop, relax the neighbours, finish the node
Visit ==
    /\ prog = "day15"
    /\ pc = "loop"
    /\ heap # {}
    /\ LET curr_node_info == heap_pop(heap)
           neighbor_positions ==
               candidate_neighbors(map, curr_node_info.position, finished_positions)
           search == relax_neighbors(
                         [map |-> map, heap |-> heap \ {curr_node_info},
                          returned |-> FALSE],
                         neighbor_positions, 1, curr_node_info, EndPos)
       IN  /\ map' = search.map
           /\ heap' = search.heap
           /\ finished_positions' =
                  IF search.returned THEN finished_positions
                  ELSE finished_positions \cup {curr_node_info.position}
           /\ pc' = IF search.returned THEN "returned" ELSE "loop"
    /\ UNCHANGED <<prog, restOfMap>>

\* heap.pop() is None: the loop and the function end
Exhausted ==
    /\ prog = "day15"
    /\ pc = "loop"
    /\ heap = {}
    /\ pc' = "returned"
    /\ UNCHANGED <<prog, mapVars, restOfMap>>

NextMap == Begin \/ Visit \/ Exhausted

SpecMap == InitMap /\ [][NextMap]_vars

Adjacent(p, q) ==
    \/ p.row = q.row /\ p.col - q.col \in {-1, 1}
    \/ p.col = q.col /\ p.row - q.row \in {-1, 1}

SetMin(S) == CHOOSE x \in S : \A y \in S : x <= y

\* per cell, the least sum of the costs of the cells entered over the paths
\* of at most k moves from the top-left cell (USIZE_MAX: no such path); the
\* comparison in the CHOOSE has each round tabulated once
RECURSIVE LeastCost(_, _)
LeastCost(nodes, k) ==
    IF k = 0
    THEN [p \in DOMAIN nodes |-> IF p = Position(0, 0) THEN 0 ELSE USIZE_MAX]
    ELSE CHOOSE least \in
             {[p \in DOMAIN nodes |->
                  SetMin({shorter[p]} \cup
                         {shorter[q] + nodes[p].edge_cost :
                             q \in {n \in DOMAIN nodes :
                                      Adjacent(n, p) /\ shorter[n] < USIZE_MAX}})] :
              shorter \in {LeastCost(nodes, k - 1)}} : least = least

\* a path that is minimal enters no cell twice: fewer moves than cells
MinPathCost == LeastCost(map.nodes, Cardinality(DOMAIN map.nodes) - 1)[EndPos]

(***************************************************************************)
(* C5.  When shortest_path_to_bottom_right has returned, dist_from_src of  *)
(* the bottom-right node is the least sum of edge_cost over the paths of   *)
(* orthogonally adjacent cells from the top-left cell (the start cell's    *)
(* cost not counted), although the search returns at the first relaxation  *)
(* of the bottom-right node; for a 1x1 grid it is 0.                       *)
(***************************************************************************)
C5_ShortestPath ==
    (prog = "day15" /\ pc = "returned") =>
        /\ map.nodes[EndPos].dist_from_src = MinPathCost
        /\ (map.width = 1 /\ map.height = 1) => map.nodes[EndPos].dist_from_src = 0

\* the search has returned early, with nodes still in the heap and a
\* neighbour of the bottom-right node not finished, on a map where the
\* bottom-right node has two neighbours
C5_Witness ==
    /\ prog = "day15"
    /\ pc = "returned"
    /\ map.width > 1 /\ map.height > 1
    /\ heap # {}
    /\ \E p \in DOMAIN map.nodes : Adjacent(p, EndPos) /\ p \notin finished_positions
    /\ map.nodes[EndPos].dist_from_src > 2

(***************************************************************************)
(* day-12: the cave system and the two path enumerations.  A cave is its   *)
(* id; the cave system is the connections vector of every cave, in the     *)
(* order parse_input pushes them.  visit_cave recurses on the stack of the *)
(* process, which holds MaxStack of its frames: a call deeper than that    *)
(* overflows the stack and the process is aborted.                         *)
(***************************************************************************)
MaxConnections == 4
MaxStack == 12

\* the ids of the inputs whose characters are all uppercase
Uppercase == {"A", "B"}

get_cave_type(id) ==
    IF id = "start" THEN "Start"
    ELSE IF id = "end" THEN "End"
    ELSE IF id \in Uppercase THEN "Big"
    ELSE "Small"

\* the connections pushed to cave id by the lines from line i on
RECURSIVE connections_from(_, _, _)
connections_from(lines, i, id) ==
    IF i > Len(lines) THEN <<>>
    ELSE (IF lines[i][1] = id THEN <<lines[i][2]>> ELSE <<>>)
         \o (IF lines[i][2] = id THEN <<lines[i][1]>> ELSE <<>>)
         \o connections_from(lines, i + 1, id)

\* parse_input of day-12
day12_parse_input(lines) ==
    [id \in {lines[i][1] : i \in DOMAIN lines} \cup {lines[i][2] : i \in DOMAIN lines}
        |-> connections_from(lines, 1, id)]

\* Vec::contains
contains(list, x) == \E i \in DOMAIN list : list[i] = x

Aborted == [kind |-> "abort", val |-> "stack overflow"]

part_1_can_be_visited(cave, visited) ==
    IF ~contains(visited, cave) THEN TRUE
    ELSE IF get_cave_type(cave) = "Big" THEN TRUE
    ELSE FALSE

\* part_1::visit_cave at the given stack depth; run is the paths vector
\* and whether the stack has overflowed
RECURSIVE part_1_visit_cave(_, _, _, _, _, _)
RECURSIVE part_1_for_connections(_, _, _, _, _, _, _)
part_1_visit_cave(caves, cave, visited, curr_path, run, depth) ==
    IF depth > MaxStack THEN [run EXCEPT !.overflow = TRUE]
    ELSE IF get_cave_type(cave) = "End"
         THEN [run EXCEPT !.paths = Append(@, Append(curr_path, cave))]
    ELSE part_1_for_connections(
             caves, cave, 1,
             IF ~contains(visited, cave) THEN Append(visited, cave) ELSE visited,
             Append(curr_path, cave), run, depth)

part_1_for_connections(caves, cave, i, visited, curr_path, run, depth) ==
    IF run.overflow \/ i > Len(caves[cave]) THEN run
    ELSE LET c == caves[cave][i]
         IN  part_1_for_connections(
                 caves, cave, i + 1, visited, curr_path,
                 IF ~part_1_can_be_visited(c, visited) THEN run
                 ELSE part_1_visit_cave(caves, c, visited, curr_path, run, depth + 1),
                 depth)

part_1_get_cave_paths(caves) ==
    LET run == part_1_visit_cave(caves, "start", <<>>, <<>>,
                                 [paths |-> <<>>, overflow |-> FALSE], 1)
    IN  IF run.overflow THEN Aborted ELSE Ok(run.paths)

part_2_can_be_visited(cave, visited, twiced_small) ==
    IF ~contains(visited, cave) THEN TRUE
    ELSE IF get_cave_type(cave) = "Big" THEN TRUE
    ELSE IF get_cave_type(cave) = "Small"
         THEN (IF twiced_small # None THEN FALSE ELSE TRUE)
    ELSE FALSE

RECURSIVE part_2_visit_cave(_, _, _, _, _, _, _)
RECURSIVE part_2_for_connections(_, _, _, _, _, _, _, _)
part_2_visit_cave(caves, cave, visited, twiced_small, curr_path, run, depth) ==
    IF depth > MaxStack THEN [run EXCEPT !.overflow = TRUE]
    ELSE IF get_cave_type(cave) = "End"
         THEN [run EXCEPT !.paths = Append(@, Append(curr_path, cave))]
    ELSE part_2_for_connections(
             caves, cave, 1,
             IF ~contains(visited, cave) THEN Append(visited, cave) ELSE visited,
             IF contains(visited, cave) /\ get_cave_type(cave) = "Small"
                /\ twiced_small = None
             THEN [kind |-> "Some", val |-> cave] ELSE twiced_small,
             Append(curr_path, cave), run, depth)

part_2_for_connections(caves, cave, i, visited, twiced_small, curr_path, run, depth) ==
    IF run.overflow \/ i > Len(caves[cave]) THEN run
    ELSE LET c == caves[cave][i]
         IN  part_2_for_connections(
                 caves, cave, i + 1, visited, twiced_small, curr_path,
                 IF ~part_2_can_be_visited(c, visited, twiced_small) THEN run
                 ELSE part_2_visit_cave(caves, c, visited, twiced_small, curr_path,
                                        run, depth + 1),
                 depth)

part_2_get_cave_paths(caves) ==
    LET run == part_2_visit_cave(caves, "start", <<>>, None, <<>>,
                                 [paths |-> <<>>, overflow |-> FALSE], 1)
    IN  IF run.overflow THEN Aborted ELSE Ok(run.paths)

\* the connections an input may list, in the order it lists them
Connections ==
    <<<<"start", "A">>, <<"start", "b">>, <<"A", "b">>, <<"a", "b">>,
      <<"A", "B">>, <<"start", "a">>, <<"a", "B">>, <<"A", "end">>,
      <<"B", "start">>, <<"b", "end">>, <<"a", "A">>, <<"end", "a">>,
      <<"end", "B">>, <<"b", "B">>, <<"start", "end">>>>

\* the sublists of list from item i on that have at most n items
RECURSIVE Sublists(_, _, _)
Sublists(list, i, n) ==
    IF i > Len(list) \/ n = 0 THEN {<<>>}
    ELSE Sublists(list, i + 1, n)
         \cup {<<list[i]>> \o rest : rest \in Sublists(list, i + 1, n - 1)}

\* the INPUT of the tests of day-12.rs
ExampleLines ==
    <<<<"start", "A">>, <<"start", "b">>, <<"A", "c">>, <<"A", "b">>,
      <<"b", "d">>, <<"A", "end">>, <<"b", "end">>>>

\* parse_input unwraps the start cave: the inputs have one
CaveInputs ==
    {lines \in Sublists(Connections, 1, MaxConnections) :
        \E i \in DOMAIN lines : "start" \in {lines[i][1], lines[i][2]}}
    \cup {ExampleLines}

InitCaves ==
    /\ prog = "day12"
    /\ pc = "called"
    /\ cave_lines \in CaveInputs
    /\ part \in {1, 2}
    /\ cave_paths = NoResult
    /\ IdleRestOfCaves

Part1GetCavePaths ==
    /\ prog = "day12"
    /\ pc = "called"
    /\ part = 1
    /\ cave_paths' = part_1_get_cave_paths(day12_parse_input(cave_lines))
    /\ pc' = IF cave_paths'.kind = "Ok" THEN "returned" ELSE "aborted"
    /\ UNCHANGED <<prog, cave_lines, part, restOfCaves>>

Part2GetCavePaths ==
    /\ prog = "day12"
    /\ pc = "called"
    /\ part = 2
    /\ cave_paths' = part_2_get_cave_paths(day12_parse_input(cave_lines))
    /\ pc' = IF cave_paths'.kind = "Ok" THEN "returned" ELSE "aborted"
    /\ UNCHANGED <<prog, cave_lines, part, restOfCaves>>

NextCaves == Part1GetCavePaths \/ Part2GetCavePaths

SpecCaves == InitCaves /\ [][NextCaves]_vars

CaveIds ==
    {cave_lines[i][1] : i \in DOMAIN cave_lines}
    \cup {cave_lines[i][2] : i \in DOMAIN cave_lines}

Connected(c, d) ==
    \E i \in DOMAIN cave_lines : cave_lines[i] \in {<<c, d>>, <<d, c>>}

\* no walk of the claim's kind through big caves that are not connected to
\* each other is longer: a small cave, at most once, between any two big ones
LongestWalk == 2 * Cardinality({c \in CaveIds : get_cave_type(c) = "Small"}) + 3

\* the walks along connections of exactly n caves from start
RECURSIVE WalksOf(_)
WalksOf(n) ==
    IF n = 1 THEN {<<"start">>}
    ELSE UNION {{Append(w, c) : c \in {d \in CaveIds : Connected(w[n - 1], d)}} :
                w \in WalksOf(n - 1)}

\* w is a walk the claim counts
IsCavePath(w) ==
    /\ w[1] = "start" /\ w[Len(w)] = "end"
    /\ \A i \in 2 .. Len(w) : w[i] # "start"
    /\ \A i \in 1 .. Len(w) - 1 : w[i] # "end"
    /\ \A i, j \in DOMAIN w :
           (i < j /\ w[i] = w[j]) => get_cave_type(w[i]) = "Big"

CavePathSet ==
    {w \in UNION {WalksOf(n) : n \in 1 .. LongestWalk} : IsCavePath(w)}

ReturnsCavePathSet ==
    /\ cave_paths.kind = "Ok"
    /\ {cave_paths.val[i] : i \in DOMAIN cave_paths.val} = CavePathSet
    /\ Len(cave_paths.val) = Cardinality(CavePathSet)

BigCavesApart ==
    \A i \in DOMAIN cave_lines :
        ~(get_cave_type(cave_lines[i][1]) = "Big"
          /\ get_cave_type(cave_lines[i][2]) = "Big")

(***************************************************************************)
(* C6.  For every cave graph, part_1::get_cave_paths returns exactly the   *)
(* set of walks along connections from start to end, each listed once, in  *)
(* which start is only the first cave, end only the last, every small cave *)
(* appears at most once and big caves any number of times; count_paths is  *)
(* the size of that set.                                                   *)
(***************************************************************************)
C6_CavePaths ==
    (prog = "day12" /\ part = 1 /\ pc # "called") => ReturnsCavePathSet

\* what does hold of part_1::get_cave_paths: the claim, on the graphs that
\* connect no two big caves
CavePathsOfBigCavesApart ==
    (prog = "day12" /\ part = 1 /\ pc # "called" /\ BigCavesApart)
        => ReturnsCavePathSet

(***************************************************************************)
(* C7.  part_1::get_cave_paths and part_2::get_cave_paths run to           *)
(* completion on every finite cave graph that contains start and end,      *)
(* also when two big caves are directly connected to each other.           *)
(***************************************************************************)
C7_RunsToCompletion ==
    (prog = "day12" /\ pc # "called"
     /\ {"start", "end"} \subseteq CaveIds) => pc = "returned"

\* what does hold: both enumerations return on the graphs that connect no
\* two big caves
CompletionOfBigCavesApart ==
    (prog = "day12" /\ pc # "called" /\ BigCavesApart) => pc = "returned"

(***************************************************************************)
(* day-04: the bingo game of part 1, one step per drawn number.            *)
(***************************************************************************)
MaxDraws == 4

\* the side of a board
BOARD_SIDE == 5

Side == 0 .. BOARD_SIDE - 1

BoardCell_new(number) == [number |-> number, marked |-> FALSE]

\* Board::new; numbers is a function of row and column
Board_new(numbers) ==
    [cells |-> [r \in Side |-> [c \in Side |-> BoardCell_new(numbers[r][c])]],
     complete |-> FALSE]

is_bingo_row(board, row) == \A c \in Side : board.cells[row][c].marked

is_bingo_col(board, col) == \A r \in Side : board.cells[r][col].marked

\* Board::mark
mark(board, row, col) ==
    LET marked == [board EXCEPT !.cells[row][col].marked = TRUE]
    IN  IF ~marked.complete /\ (is_bingo_row(marked, row) \/ is_bingo_col(marked, col))
        THEN [marked EXCEPT !.complete = TRUE]
        ELSE marked

\* the cells from the k-th on, row by row
RECURSIVE score_from(_, _, _)
score_from(board, k, counted) ==
    IF k = BOARD_SIDE * BOARD_SIDE THEN 0
    ELSE LET cell == board.cells[k \div BOARD_SIDE][k % BOARD_SIDE]
         IN  (IF cell.marked = counted THEN cell.number ELSE 0)
             + score_from(board, k + 1, counted)

\* a score that adds up the marked numbers
calculate_score_of_marked(board) == score_from(board, 0, TRUE)

\* Board::calculate_score
calculate_score(board) == score_from(board, 0, FALSE)

NumberLocation(board_idx, row, col) ==
    [board_idx |-> board_idx, row |-> row, col |-> col]

\* make_bingo_map: per number, its locations by board, row and column
make_bingo_map(boards_) ==
    LET cells == BOARD_SIDE * BOARD_SIDE
        all == [k \in 1 .. Len(boards_) * cells |->
                   NumberLocation((k - 1) \div cells + 1,
                                  ((k - 1) % cells) \div BOARD_SIDE,
                                  (k - 1) % BOARD_SIDE)]
        number_at(l) == boards_[l.board_idx].cells[l.row][l.col].number
    IN  [number \in {number_at(all[k]) : k \in DOMAIN all} |->
            LET here(l) == number_at(l) = number IN SelectSeq(all, here)]

\* HashMap::get
bingo_map_get(bingo_map, number) ==
    IF number \in DOMAIN bingo_map
    THEN [kind |-> "Some", val |-> bingo_map[number]] ELSE None

\* the for loop over the locations of one number; game is the boards and
\* what play_bingo has returned
RECURSIVE part_1_mark_locations(_, _, _, _)
part_1_mark_locations(game, locations, i, number) ==
    IF i > Len(locations) THEN game
    ELSE LET location == locations[i]
             board == mark(game.boards[location.board_idx], location.row,
                           location.col)
             marked == [game EXCEPT !.boards[location.board_idx] = board]
         IN  IF board.complete
             THEN [marked EXCEPT !.returned = Ok(calculate_score(board) * number)]
             ELSE part_1_mark_locations(marked, locations, i + 1, number)

\* the numbers of the boards of the runs, as functions of row and column
NumbersA == [r \in Side |-> [c \in Side |-> BOARD_SIDE * r + c]]

\* NumbersA with 4 and 9 in each other's place
NumbersC ==
    [r \in Side |-> [c \in Side |->
        IF NumbersA[r][c] = 4 THEN 9
        ELSE IF NumbersA[r][c] = 9 THEN 4 ELSE NumbersA[r][c]]]

\* 0 .. 4 down the first column, other numbers elsewhere
NumbersB == [r \in Side |-> [c \in Side |-> IF c = 0 THEN r ELSE 30 + BOARD_SIDE * c + r]]

\* NumbersA with a second 4 in the second row
NumbersD == [NumbersA EXCEPT ![1][0] = 4]

BoardLists ==
    {<<Board_new(NumbersA)>>,
     <<Board_new(NumbersD)>>,
     <<Board_new(NumbersA), Board_new(NumbersC)>>,
     <<Board_new(NumbersB), Board_new(NumbersA)>>,
     <<Board_new(NumbersC), Board_new(NumbersB), Board_new(NumbersD)>>}

\* every game opens with 0 and 1, drawn in either order, 1 also twice
Openings == {<<0, 1>>, <<1, 0, 1>>}

DrawPool == {2, 3, 4, 9, 99}

\* the sequences of at most n different numbers of the pool
RECURSIVE DrawsUpTo(_)
DrawsUpTo(n) ==
    IF n = 0 THEN {<<>>}
    ELSE LET shorter == DrawsUpTo(n - 1)
         IN  shorter \cup
             UNION {{Append(d, x) : x \in DrawPool \ {d[i] : i \in DOMAIN d}} :
                    d \in {t \in shorter : Len(t) = n - 1}}

InitBingo ==
    /\ prog = "day04"
    /\ pc = "playing"
    /\ boards \in BoardLists
    /\ numbers_drawn \in {opening \o rest : opening \in Openings,
                                             rest \in DrawsUpTo(MaxDraws)}
    /\ drawn = 0
    /\ bingo = NoResult
    /\ boards_left = 0
    /\ IdleRestOfBingo

\* part_1::play_bingo: one iteration of the loop over numbers_drawn
Part1Draw ==
    /\ prog = "day04"
    /\ pc = "playing"
    /\ drawn < Len(numbers_drawn)
    /\ \E number \in {numbers_drawn[drawn + 1]} :
       \E locations \in {bingo_map_get(make_bingo_map(boards), number)} :
       \E game \in {IF locations = None
                    THEN [boards |-> boards, returned |-> NoResult]
                    ELSE part_1_mark_locations(
                             [boards |-> boards, returned |-> NoResult],
                             locations.val, 1, number)} :
           /\ boards' = game.boards
           /\ bingo' = game.returned
           /\ pc' = IF game.returned = NoResult THEN "playing" ELSE "returned"
    /\ drawn' = drawn + 1
    /\ UNCHANGED <<prog, numbers_drawn, boards_left, restOfBingo>>

\* the numbers are used up: panic!("There should've been a winning board")
NoWinner ==
    /\ prog = "day04"
    /\ pc = "playing"
    /\ drawn = Len(numbers_drawn)
    /\ bingo' = Panicked
    /\ pc' = "aborted"
    /\ UNCHANGED <<prog, boards, numbers_drawn, drawn, boards_left, restOfBingo>>

NextBingo == Part1Draw \/ NoWinner

SpecBingo == InitBingo /\ [][NextBingo]_vars

\* the markings in the order the game makes them: by draw, then by board,
\* then by row and column
Markings ==
    LET cells == BOARD_SIDE * BOARD_SIDE
        per_draw == Len(boards) * cells
        all == [k \in 1 .. Len(numbers_drawn) * per_draw |->
                   [draw |-> (k - 1) \div per_draw + 1,
                    board_idx |-> ((k - 1) % per_draw) \div cells + 1,
                    row |-> ((k - 1) % cells) \div BOARD_SIDE,
                    col |-> (k - 1) % BOARD_SIDE]]
        hit(m) == boards[m.board_idx].cells[m.row][m.col].number
                      = numbers_drawn[m.draw]
    IN  SelectSeq(all, hit)

\* the cells of board b that the first e markings have marked
MarkedBy(markings, e, b) ==
    {<<markings[k].row, markings[k].col>> :
        k \in {j \in 1 .. e : markings[j].board_idx = b}}

HasFullLine(cells) ==
    \/ \E r \in Side : \A c \in Side : <<r, c>> \in cells
    \/ \E c \in Side : \A r \in Side : <<r, c>> \in cells

\* the markings that leave a row or a column of their board fully marked
Winning(markings) ==
    {e \in DOMAIN markings : HasFullLine(MarkedBy(markings, e, markings[e].board_idx))}

SumOver(S, number_of(_)) ==
    LET RECURSIVE Sum(_)
        Sum(T) == IF T = {} THEN 0
                  ELSE LET x == CHOOSE y \in T : TRUE
                       IN  number_of(x) + Sum(T \ {x})
    IN  Sum(S)

(***************************************************************************)
(* C10.  part_1::play_bingo marks the drawn numbers in draw order on every *)
(* board that contains them and returns, for the first board on which a    *)
(* row or a column becomes fully marked, the sum of that board's numbers   *)
(* still unmarked at that moment times the number just drawn; the numbers  *)
(* later in the draw sequence have no influence on the result.             *)
(***************************************************************************)
C10_PlayBingo ==
    (prog = "day04" /\ pc = "returned") =>
        \E markings \in {Markings} :
        \E winning \in {Winning(markings)} :
            /\ winning # {}
            /\ LET first == CHOOSE e \in winning : \A w \in winning : e <= w
                   winner == markings[first].board_idx
                   number_on(cell) == boards[winner].cells[cell[1]][cell[2]].number
               IN  /\ markings[first].draw = drawn
                   /\ bingo =
                          Ok(SumOver((Side \X Side) \ MarkedBy(markings, first, winner),
                                     number_on)
                             * numbers_drawn[drawn])

\* a game of several boards that a board other than the first has won,
\* with numbers left in the draw sequence
C10_Witness ==
    /\ prog = "day04"
    /\ pc = "returned"
    /\ Len(boards) > 1
    /\ ~boards[1].complete
    /\ drawn < Len(numbers_drawn)
    /\ bingo.val > 0

(***************************************************************************)
(* day-04: the bingo game of part 2, one step per drawn number.            *)
(***************************************************************************)
\* a board that never reports itself complete
is_complete_never(board) == FALSE

\* Board::is_complete
is_complete(board) == board.complete

\* the for loop over the locations of one number; game is the boards,
\* boards_left and what play_bingo has returned
RECURSIVE part_2_mark_locations(_, _, _, _)
part_2_mark_locations(game, locations, i, number) ==
    IF i > Len(locations) THEN game
    ELSE LET location == locations[i]
         IN  IF is_complete(game.boards[location.board_idx])
             THEN part_2_mark_locations(game, locations, i + 1, number)
             ELSE LET board == mark(game.boards[location.board_idx], location.row,
                                    location.col)
                      marked == [game EXCEPT !.boards[location.board_idx] = board]
                  IN  IF is_bingo_row(board, location.row)
                         \/ is_bingo_col(board, location.col)
                      THEN LET left == [marked EXCEPT !.boards_left = @ - 1]
                           IN  IF left.boards_left = 0
                               THEN [left EXCEPT
                                        !.returned = Ok(calculate_score(board) * number)]
                               ELSE part_2_mark_locations(left, locations, i + 1,
                                                          number)
                      ELSE part_2_mark_locations(marked, locations, i + 1, number)

InitBingo2 ==
    /\ prog = "day04_part_2"
    /\ pc = "playing"
    /\ boards \in BoardLists
    /\ numbers_drawn \in {opening \o rest : opening \in Openings,
                                             rest \in DrawsUpTo(MaxDraws)}
    /\ drawn = 0
    /\ bingo = NoResult
    /\ boards_left = Len(boards)
    /\ IdleRestOfBingo

\* part_2::play_bingo: one iteration of the loop over numbers_drawn
Part2Draw ==
    /\ prog = "day04_part_2"
    /\ pc = "playing"
    /\ drawn < Len(numbers_drawn)
    /\ \E number \in {numbers_drawn[drawn + 1]} :
       \E locations \in {bingo_map_get(make_bingo_map(boards), number)} :
       \E game \in {IF locations = None
                    THEN [boards |-> boards, boards_left |-> boards_left,
                          returned |-> NoResult]
                    ELSE part_2_mark_locations(
                             [boards |-> boards, boards_left |-> boards_left,
                              returned |-> NoResult],
                             locations.val, 1, number)} :
           /\ boards' = game.boards
           /\ boards_left' = game.boards_left
           /\ bingo' = game.returned
           /\ pc' = IF game.returned = NoResult THEN "playing" ELSE "returned"
    /\ drawn' = drawn + 1
    /\ UNCHANGED <<prog, numbers_drawn, restOfBingo>>

\* the numbers are used up: panic!("There should've been a winning board")
Part2NoWinner ==
    /\ prog = "day04_part_2"
    /\ pc = "playing"
    /\ drawn = Len(numbers_drawn)
    /\ bingo' = Panicked
    /\ pc' = "aborted"
    /\ UNCHANGED <<prog, boards, numbers_drawn, drawn, boards_left, restOfBingo>>

NextBingo2 == Part2Draw \/ Part2NoWinner

SpecBingo2 == InitBingo2 /\ [][NextBingo2]_vars

\* the markings of board b, among the given ones, that leave a row or a
\* column of it fully marked
Completing(markings, b) ==
    {e \in DOMAIN markings :
        markings[e].board_idx = b /\ HasFullLine(MarkedBy(markings, e, b))}

(***************************************************************************)
(* C11.  part_2::play_bingo returns, for the board that is the last of all *)
(* boards to complete a row or a column, the sum of its numbers unmarked   *)
(* at the moment it completes times the number that completed it; a board  *)
(* receives no further marks once it is complete, and throughout the game  *)
(* boards_left is the number of boards not yet complete, each board being  *)
(* counted as completed exactly once.                                      *)
(***************************************************************************)
C11_LastBoard ==
    (prog = "day04_part_2") =>
        \E markings \in {LET taken(m) == m.draw <= drawn IN SelectSeq(Markings, taken)} :
        \E completes \in {[b \in DOMAIN boards |->
                              LET at == Completing(markings, b)
                              IN  IF at = {} THEN 0
                                  ELSE CHOOSE e \in at : \A w \in at : e <= w]} :
            /\ \A b \in DOMAIN boards :
                   /\ boards[b].complete = (completes[b] > 0)
                   /\ {<<r, c>> \in Side \X Side : boards[b].cells[r][c].marked}
                          = MarkedBy(markings,
                                     IF completes[b] > 0 THEN completes[b]
                                     ELSE Len(markings), b)
            /\ boards_left = Cardinality({b \in DOMAIN boards : ~boards[b].complete})
            /\ (pc = "returned") =>
                   /\ \A b \in DOMAIN boards : completes[b] > 0
                   /\ LET last == CHOOSE b \in DOMAIN boards :
                                      \A o \in DOMAIN boards : completes[o] <= completes[b]
                          number_on(cell) == boards[last].cells[cell[1]][cell[2]].number
                      IN  /\ markings[completes[last]].draw = drawn
                          /\ bingo =
                                 Ok(SumOver((Side \X Side)
                                                \ MarkedBy(markings, completes[last], last),
                                            number_on)
                                    * numbers_drawn[drawn])

\* a game of several boards has returned, and a board that completed
\* earlier holds an unmarked number that was drawn after it completed
C11_Witness ==
    /\ prog = "day04_part_2"
    /\ pc = "returned"
    /\ Len(boards) > 1
    /\ bingo.val > 0
    /\ \E b \in DOMAIN boards : \E r \in Side, c \in Side :
           /\ ~boards[b].cells[r][c].marked
           /\ \E k \in 1 .. drawn : numbers_drawn[k] = boards[b].cells[r][c].number

(***************************************************************************)
(* day-05: the grid points of a line.  Coordinates are u16; a string is    *)
(* the sequence of its characters.                                         *)
(***************************************************************************)
U16_MAX == 65535

MaxSpan == 3

\* format!("{}", n) of an unsigned number: its decimal digits
RECURSIVE to_string(_)
to_string(n) ==
    LET digit == <<"0", "1", "2", "3", "4", "5", "6", "7", "8", "9">>[(n % 10) + 1]
    IN  IF n < 10 THEN <<digit>> ELSE Append(to_string(n \div 10), digit)

\* LocId::new
LocId_new(x, y) == to_string(x) \o <<",">> \o to_string(y)

\* Line::new
Line_new(p1, p2) ==
    IF p1.x <= p2.x THEN [p1 |-> p1, p2 |-> p2] ELSE [p1 |-> p2, p2 |-> p1]

\* Line::is_vertical
is_vertical(line) == line.p1.x = line.p2.x

\* Line::is_horizontal
is_horizontal(line) == line.p1.y = line.p2.y

\* the loop of the diagonal case from x on; y is stepped after every push,
\* the last one included, and leaves u16 with a panic where the build checks
\* overflow and by wrapping around where it does not
RECURSIVE diagonal_loc_ids(_, _, _, _, _, _)
diagonal_loc_ids(loc_ids, x, x2, y, y_inc, checks) ==
    IF x > x2 THEN Ok(loc_ids)
    ELSE LET pushed == Append(loc_ids, LocId_new(x, y))
             stepped == IF y_inc > 0 THEN y + 1 ELSE y - 1
         IN  IF stepped \in 0 .. U16_MAX
             THEN diagonal_loc_ids(pushed, x + 1, x2, stepped, y_inc, checks)
             ELSE IF checks THEN Panicked
             ELSE diagonal_loc_ids(pushed, x + 1, x2, stepped % (U16_MAX + 1),
                                   y_inc, checks)

\* Line::get_loc_ids
get_loc_ids(line, checks) ==
    IF is_horizontal(line)
    THEN Ok([k \in 1 .. (line.p2.x - line.p1.x + 1) |->
                LocId_new(line.p1.x + k - 1, line.p1.y)])
    ELSE IF is_vertical(line)
    THEN LET y1 == IF line.p1.y > line.p2.y THEN line.p2.y ELSE line.p1.y
             y2 == IF line.p1.y > line.p2.y THEN line.p1.y ELSE line.p2.y
         IN  Ok([k \in 1 .. (y2 - y1 + 1) |-> LocId_new(line.p1.x, y1 + k - 1)])
    ELSE diagonal_loc_ids(<<>>, line.p1.x, line.p2.x, line.p1.y,
                          IF line.p1.y <= line.p2.y THEN 1 ELSE -1, checks)

\* coordinates at both ends of u16, and the points MaxSpan apart at most
Coordinates == (0 .. MaxSpan) \cup ((U16_MAX - MaxSpan) .. U16_MAX)

Near(a, b) == a - b \in (-MaxSpan) .. MaxSpan

InitLine ==
    /\ prog = "day05"
    /\ pc = "call"
    /\ \E x1 \in Coordinates, y1 \in Coordinates :
       \E x2 \in {c \in Coordinates : Near(c, x1)},
          y2 \in {c \in Coordinates : Near(c, y1)} :
       \E checks \in BOOLEAN :
           call_args = [line |-> Line_new([x |-> x1, y |-> y1], [x |-> x2, y |-> y2]),
                        overflow_checks |-> checks]
    /\ returned = NoResult
    /\ IdleRestOfCall

GetLocIds ==
    /\ prog = "day05"
    /\ pc = "call"
    /\ returned' = get_loc_ids(call_args.line, call_args.overflow_checks)
    /\ pc' = IF returned' = Panicked THEN "aborted" ELSE "returned"
    /\ UNCHANGED <<prog, call_args, restOfCall>>

NextLine == GetLocIds

SpecLine == InitLine /\ [][NextLine]_vars

\* the number written in decimal by a sequence of digit characters
RECURSIVE DecimalValue(_)
DecimalValue(chars) ==
    IF chars = <<>> THEN 0
    ELSE DecimalValue(SubSeq(chars, 1, Len(chars) - 1)) * 10
         + (CHOOSE d \in 0 .. 9 : to_string(d) = <<chars[Len(chars)]>>)

\* the grid point a location id names: the numbers before and after its comma
PointOf(loc_id) ==
    LET comma == CHOOSE i \in DOMAIN loc_id : loc_id[i] = ","
    IN  [x |-> DecimalValue(SubSeq(loc_id, 1, comma - 1)),
         y |-> DecimalValue(SubSeq(loc_id, comma + 1, Len(loc_id)))]

Distance(a, b) == IF a < b THEN b - a ELSE a - b

Towards(a, b) == IF a < b THEN 1 ELSE IF a > b THEN -1 ELSE 0

\* horizontal, vertical or at 45 degrees
Aligned(line) ==
    \/ line.p1.x = line.p2.x
    \/ line.p1.y = line.p2.y
    \/ Distance(line.p1.x, line.p2.x) = Distance(line.p1.y, line.p2.y)

\* the points of the segment: from p1 to p2, a vertical line from its lower
\* end to its upper end
SegmentPoints(line) ==
    LET upwards == line.p1.x # line.p2.x \/ line.p1.y <= line.p2.y
        from == IF upwards THEN line.p1 ELSE line.p2
        to == IF upwards THEN line.p2 ELSE line.p1
        span == IF Distance(from.x, to.x) > Distance(from.y, to.y)
                THEN Distance(from.x, to.x) ELSE Distance(from.y, to.y)
    IN  [k \in 1 .. span + 1 |->
            [x |-> from.x + (k - 1) * Towards(from.x, to.x),
             y |-> from.y + (k - 1) * Towards(from.y, to.y)]]

ReturnsSegmentPoints ==
    /\ returned.kind = "Ok"
    /\ [k \in DOMAIN returned.val |-> PointOf(returned.val[k])]
           = SegmentPoints(call_args.line)

\* the step after the last push takes y out of u16
LeavesU16(line) ==
    /\ line.p1.x # line.p2.x
    /\ line.p1.y # line.p2.y
    /\ \/ line.p1.y > line.p2.y /\ line.p2.y = 0
       \/ line.p1.y < line.p2.y /\ line.p2.y = U16_MAX

(***************************************************************************)
(* C12.  For every line built by Line::new that is horizontal, vertical or *)
(* a 45-degree diagonal, with coordinates anywhere in 0..=65535 including  *)
(* 0, get_loc_ids returns exactly the max(|dx|,|dy|)+1 grid points of the  *)
(* segment from p1 to p2 inclusive, each once, in order from p1 to p2 for  *)
(* horizontal and diagonal lines and in ascending y for vertical lines; a  *)
(* diagonal whose y falls as x rises, down to y = 0 at its last point, is  *)
(* included.                                                               *)
(***************************************************************************)
C12_GetLocIds ==
    (prog = "day05" /\ pc # "call" /\ Aligned(call_args.line))
        => ReturnsSegmentPoints

\* the same for the lines whose diagonal step stays inside u16, and for the
\* others in a build that wraps
LocIdsInsideU16 ==
    (/\ prog = "day05"
     /\ pc # "call"
     /\ Aligned(call_args.line)
     /\ ~ (LeavesU16(call_args.line) /\ call_args.overflow_checks))
        => ReturnsSegmentPoints

\* a build that checks overflow panics exactly on the diagonals that leave u16
PanicsLeavingU16 ==
    (prog = "day05" /\ pc # "call" /\ Aligned(call_args.line))
        => ((returned = Panicked)
                <=> (LeavesU16(call_args.line) /\ call_args.overflow_checks))

(***************************************************************************)
(* day-07: the cheapest position to align the crabs on.  A cluster is a    *)
(* position and the number of crabs on it; clusters are indexed from 1, so *)
(* index i of the code is index i + 1 here.                                *)
(***************************************************************************)
MaxCrabs == 4

MaxPosition == 4

\* Vec::sort: the values in ascending order
RECURSIVE sort(_)
sort(data) ==
    IF data = <<>> THEN <<>>
    ELSE LET i == CHOOSE j \in DOMAIN data : \A k \in DOMAIN data : data[j] <= data[k]
         IN  <<data[i]>> \o sort(SubSeq(data, 1, i - 1) \o SubSeq(data, i + 1, Len(data)))

\* the for loop of clusterize from the i-th sorted value on
RECURSIVE clusterize_from(_, _, _, _)
clusterize_from(sorted, i, last_v, clusters) ==
    IF i > Len(sorted) THEN Ok(clusters)
    ELSE LET curr_v == sorted[i]
             pushed == IF curr_v # last_v
                       THEN Append(clusters, [value |-> curr_v, count |-> 0])
                       ELSE clusters
         IN  IF pushed = <<>> THEN Panicked
             ELSE clusterize_from(sorted, i + 1, curr_v,
                                  [pushed EXCEPT ![Len(pushed)].count = @ + 1])

\* clusterize
clusterize(data) ==
    IF data = <<>> THEN Ok(<<>>) ELSE clusterize_from(sort(data), 1, U16_MAX, <<>>)

\* part_1::cost_function
RECURSIVE part_1_cost_function(_, _)
part_1_cost_function(clusters, base) ==
    IF clusters = <<>> THEN 0
    ELSE LET c == clusters[Len(clusters)]
         IN  part_1_cost_function(SubSeq(clusters, 1, Len(clusters) - 1), base)
             + c.count * (IF base > c.value THEN base - c.value ELSE c.value - base)

\* find_optimal_pos with part_1::cost_function; base_idx - 1 of index 0
\* leaves usize (a panic, or the index usize::MAX in a build that wraps) and
\* an index outside the slice panics
RECURSIVE find_optimal_pos(_, _)
find_optimal_pos(clusters, base_idx) ==
    IF base_idx + 1 \notin DOMAIN clusters THEN Panicked
    ELSE IF base_idx - 1 < 0 THEN Panicked
    ELSE IF base_idx + 2 \notin DOMAIN clusters THEN Panicked
    ELSE LET cost_c == part_1_cost_function(clusters, clusters[base_idx + 1].value)
             cost_l == part_1_cost_function(clusters, clusters[base_idx].value)
             cost_r == part_1_cost_function(clusters, clusters[base_idx + 2].value)
         IN  IF cost_l < cost_c /\ cost_l < cost_r
             THEN find_optimal_pos(clusters, base_idx - 1)
             ELSE IF cost_r < cost_c
             THEN find_optimal_pos(clusters, base_idx + 1)
             ELSE Ok(<<clusters[base_idx + 1].value, cost_c>>)

InitCrabs ==
    /\ prog = "day07"
    /\ pc = "call"
    /\ call_args \in UNION {[1 .. n -> 0 .. MaxPosition] : n \in 1 .. MaxCrabs}
    /\ returned = NoResult
    /\ IdleRestOfCall

\* main, part 1
FindOptimalPos ==
    /\ prog = "day07"
    /\ pc = "call"
    /\ \E clusters \in {clusterize(call_args)} :
           returned' = IF clusters = Panicked THEN Panicked
                       ELSE find_optimal_pos(clusters.val, Len(clusters.val) \div 2)
    /\ pc' = IF returned' = Panicked THEN "aborted" ELSE "returned"
    /\ UNCHANGED <<prog, call_args, restOfCall>>

NextCrabs == FindOptimalPos

SpecCrabs == InitCrabs /\ [][NextCrabs]_vars

\* the fuel to bring every crab of the list to position p
FuelTo(crabs, p) ==
    LET distance(x) == IF crabs[x] < p THEN p - crabs[x] ELSE crabs[x] - p
    IN  SumOver(DOMAIN crabs, distance)

\* the pair returned is an optimum: no position costs less than its fuel,
\* and its position costs that much
ReturnsOptimum ==
    /\ returned.kind = "Ok"
    /\ \A p \in 0 .. MaxPosition : returned.val[2] <= FuelTo(call_args, p)
    /\ returned.val[2] = FuelTo(call_args, returned.val[1])

(***************************************************************************)
(* C13.  For every non-empty list of crab positions, find_optimal_pos      *)
(* started at index clusters.len()/2 with the part_1 cost function returns *)
(* a pair (pos, fuel) in which fuel is the minimum over all positions p of *)
(* the sum of |x_i - p| over all crabs and pos attains that minimum; this  *)
(* covers lists with a single distinct position and lists whose optimum is *)
(* the smallest or the largest position.                                   *)
(***************************************************************************)
C13_FindOptimalPos ==
    (prog = "day07" /\ pc # "call") => ReturnsOptimum

\* whenever find_optimal_pos does return, it returns an optimum
OptimumWhenReturned ==
    (prog = "day07" /\ pc = "returned") => ReturnsOptimum

\* it returns only from an index with a cluster on either side
ReturnedFromInside ==
    (prog = "day07" /\ pc = "returned") =>
        /\ \E i \in DOMAIN call_args : call_args[i] < returned.val[1]
        /\ \E i \in DOMAIN call_args : call_args[i] > returned.val[1]

(***************************************************************************)
(* day-08: the scrambled seven-segment displays.  A pattern is the         *)
(* sequence of its characters; a u32 is kept as two 16-bit halves.         *)
(***************************************************************************)
Wires == <<"a", "b", "c", "d", "e", "f", "g">>

\* Signal::new and Digit::new: the characters of the pattern, sorted (the
\* a's, then the b's, and so on)
Signal_new(s) ==
    LET of_wire(k) == LET is_wire(ch) == ch = Wires[k] IN SelectSeq(s, is_wire)
    IN  of_wire(1) \o of_wire(2) \o of_wire(3) \o of_wire(4) \o of_wire(5)
        \o of_wire(6) \o of_wire(7)

\* Signal::includes
includes(signal, rhs) == \A i \in DOMAIN rhs : contains(signal, rhs[i])

\* Signal::intersect
intersect(signal, rhs) ==
    LET kept(v) == contains(rhs, v) IN SelectSeq(signal, kept)

\* Sub for Signal
Signal_sub(signal, rhs) ==
    LET kept(v) == ~contains(rhs, v) IN SelectSeq(signal, kept)

\* signals.iter().find(|s| s.0.len() == len)
find_len(signals, len) ==
    LET found == {i \in DOMAIN signals : Len(signals[i]) = len}
    IN  IF found = {} THEN None
        ELSE [kind |-> "Some",
              val |-> signals[CHOOSE i \in found : \A j \in found : i <= j]]

\* HashMap::insert
insert(hash_map, key, value) ==
    [k \in DOMAIN hash_map \cup {key} |-> IF k = key THEN value ELSE hash_map[k]]

\* a for loop that inserts the digit of every signal of the list
RECURSIVE insert_each(_, _, _, _)
insert_each(segments_map, list, i, digit_of) ==
    IF i > Len(list) THEN segments_map
    ELSE insert_each(insert(segments_map, list[i], digit_of[list[i]]), list, i + 1,
                     digit_of)

\* part_2::deduce_segment_map
deduce_segment_map(signals) ==
    LET one == find_len(signals, 2)
        seven == find_len(signals, 3)
        four == find_len(signals, 4)
        eight == find_len(signals, 7)
        of_len_6(sig) == Len(sig) = 6
        of_len_5(sig) == Len(sig) = 5
        len_6 == SelectSeq(signals, of_len_6)
        len_5 == SelectSeq(signals, of_len_5)
        digit_6 == [sig \in {len_6[i] : i \in DOMAIN len_6} |->
                       LET diff == Signal_sub(eight.val, sig)
                       IN  IF includes(one.val, diff) THEN 6
                           ELSE IF includes(four.val, diff) THEN 0
                           ELSE 9]
        digit_5 == [sig \in {len_5[i] : i \in DOMAIN len_5} |->
                       LET diff == Signal_sub(eight.val, sig)
                       IN  IF includes(four.val, diff) THEN 2
                           ELSE IF intersect(one.val, diff) = <<>> THEN 3
                           ELSE 5]
        known == insert(insert(insert(insert(<<>>, one.val, 1), seven.val, 7),
                               four.val, 4), eight.val, 8)
    IN  IF None \in {one, seven, four, eight} THEN Panicked
        ELSE Ok(insert_each(insert_each(known, len_6, 1, digit_6), len_5, 1, digit_5))

\* the u32 of two halves after an addition or a multiplication: a result
\* past u32::MAX panics where the build checks overflow and wraps where not
u32_result(hi, lo, checks) ==
    LET carried == hi + (lo \div (U16_MAX + 1))
    IN  IF carried > U16_MAX /\ checks THEN Panicked
        ELSE Ok([hi |-> carried % (U16_MAX + 1), lo |-> lo % (U16_MAX + 1)])

\* the loop of get_decimal_value from the i-th digit on
RECURSIVE get_decimal_value_from(_, _, _, _, _)
get_decimal_value_from(digits, segments_map, i, value, checks) ==
    IF i > Len(digits)
    THEN Ok((value.hi \div 10) * (U16_MAX + 1)
            + ((value.hi % 10) * (U16_MAX + 1) + value.lo) \div 10)
    ELSE IF digits[i] \notin DOMAIN segments_map THEN Panicked
    ELSE LET added == u32_result(value.hi, value.lo + segments_map[digits[i]], checks)
         IN  IF added = Panicked THEN Panicked
             ELSE LET times_10 == u32_result(added.val.hi * 10, added.val.lo * 10, checks)
                  IN  IF times_10 = Panicked THEN Panicked
                      ELSE get_decimal_value_from(digits, segments_map, i + 1,
                                                  times_10.val, checks)

\* part_2::get_decimal_value
get_decimal_value(digits, segments_map, checks) ==
    get_decimal_value_from(digits, segments_map, 1, [hi |-> 0, lo |-> 0], checks)

\* the segments of the digits 0 to 9
Segments ==
    <<<<"a", "b", "c", "e", "f", "g">>, <<"c", "f">>, <<"a", "c", "d", "e", "g">>,
      <<"a", "c", "d", "f", "g">>, <<"b", "c", "d", "f">>, <<"a", "b", "d", "f", "g">>,
      <<"a", "b", "d", "e", "f", "g">>, <<"a", "c", "f">>,
      <<"a", "b", "c", "d", "e", "f", "g">>, <<"a", "b", "c", "d", "f", "g">>>>

\* the pattern of a digit as the wiring scrambles it
Scrambled(wiring, digit) ==
    [i \in DOMAIN Segments[digit + 1] |-> wiring[Segments[digit + 1][i]]]

\* the orders the ten patterns are listed in, and the numbers displayed
PatternOrders == {<<0, 1, 2, 3, 4, 5, 6, 7, 8, 9>>, <<9, 5, 2, 0, 8, 3, 6, 1, 7, 4>>}

Displays ==
    {<<>>, <<5, 3, 5, 3>>, <<0, 1, 2, 6, 7, 8, 9, 4>>, <<4, 2, 9, 4, 9, 6, 7, 2, 9>>,
     <<4, 2, 9, 4, 9, 6, 7, 3, 0>>, <<9, 9, 9, 9, 9, 9, 9, 9, 9>>}

InitWires ==
    /\ prog = "day08"
    /\ pc = "call"
    /\ \E wiring \in Permutations({Wires[i] : i \in DOMAIN Wires}) :
       \E order \in PatternOrders, display \in Displays :
           call_args =
               [wiring |-> wiring,
                display |-> display,
                signals |-> [k \in DOMAIN order |->
                                Signal_new(Scrambled(wiring, order[k]))],
                digits |-> [k \in DOMAIN display |->
                               Signal_new(Scrambled(wiring, display[k]))]]
    /\ returned = NoResult
    /\ IdleRestOfCall

\* find_digit_values_and_add_them: one entry
DecodeEntry ==
    /\ prog = "day08"
    /\ pc = "call"
    /\ \E checks \in BOOLEAN :
       \E segments_map \in {deduce_segment_map(call_args.signals)} :
       \E value \in {IF segments_map = Panicked THEN Panicked
                     ELSE get_decimal_value(call_args.digits, segments_map.val,
                                            checks)} :
           /\ returned' = [segments_map |-> segments_map, value |-> value]
           /\ pc' = IF value = Panicked THEN "aborted" ELSE "returned"
    /\ UNCHANGED <<prog, call_args, restOfCall>>

NextWires == DecodeEntry

SpecWires == InitWires /\ [][NextWires]_vars

\* the number written by a sequence of decimal digits
RECURSIVE NumberOf(_)
NumberOf(display) ==
    IF display = <<>> THEN 0
    ELSE NumberOf(SubSeq(display, 1, Len(display) - 1)) * 10 + display[Len(display)]

\* the map sends the sorted letters of each of the ten patterns, and nothing
\* else, to the digit the pattern displays
MapsPatternsToDigits ==
    /\ returned.segments_map.kind = "Ok"
    /\ \E segments_map \in {returned.segments_map.val} :
           /\ \A digit \in 0 .. 9 :
                  \E key \in DOMAIN segments_map :
                      /\ Len(key) = Len(Segments[digit + 1])
                      /\ {key[i] : i \in DOMAIN key}
                             = {call_args.wiring[Segments[digit + 1][i]] :
                                    i \in DOMAIN Segments[digit + 1]}
                      /\ \A i \in 1 .. Len(key) - 1 :
                             \E a, b \in DOMAIN Wires :
                                 a < b /\ Wires[a] = key[i] /\ Wires[b] = key[i + 1]
                      /\ segments_map[key] = digit
           /\ Cardinality(DOMAIN segments_map) = 10

DecodesDisplay == returned.value = Ok(NumberOf(call_args.display))

(***************************************************************************)
(* C14.  For every one of the 5040 permutations of the seven segment wires *)
(* a..g, deduce_segment_map applied to the ten scrambled digit patterns    *)
(* (in any order) returns a map that sends each pattern's sorted letter    *)
(* string to the digit 0..9 it displays, so that get_decimal_value decodes *)
(* any sequence of output patterns d1..dn to the decimal number with those *)
(* digits.                                                                 *)
(***************************************************************************)
C14_DecodesEveryWiring ==
    (prog = "day08" /\ pc # "call") => (MapsPatternsToDigits /\ DecodesDisplay)

\* the map is right for every wiring and order
DeducesEveryWiring ==
    (prog = "day08" /\ pc # "call") => MapsPatternsToDigits

\* the number is right whenever ten times it fits u32
DecodesWhereTenfoldFits ==
    (prog = "day08" /\ pc # "call" /\ NumberOf(call_args.display) <= 429496729)
        => DecodesDisplay

(***************************************************************************)
(* day-10: the chunks of a navigation line.  A line is the sequence of its *)
(* characters.                                                             *)
(***************************************************************************)
MaxLineLen == 4

OPEN_DELIMS == <<"(", "[", "{", "<">>

CLOSE_DELIMS == <<")", "]", "}", ">">>

\* Token::new
Token_new(c) ==
    IF contains(OPEN_DELIMS, c) THEN Ok([kind |-> "OpenDelimiter", char |-> c])
    ELSE IF contains(CLOSE_DELIMS, c) THEN Ok([kind |-> "CloseDelimiter", char |-> c])
    ELSE Panicked

\* a closing delimiter that is always the first one
get_first_close_delim(c) == CLOSE_DELIMS[1]

\* get_matching_close_delim
get_matching_close_delim(c) ==
    CLOSE_DELIMS[CHOOSE index \in DOMAIN OPEN_DELIMS : OPEN_DELIMS[index] = c]

\* the for loop of parse_chunk_line from the i-th character on
RECURSIVE parse_chunk_line_from(_, _, _)
parse_chunk_line_from(chars, i, stack) ==
    IF i > Len(chars) THEN Ok(stack)
    ELSE LET token == Token_new(chars[i])
         IN  IF token = Panicked THEN Panicked
             ELSE IF token.val.kind = "OpenDelimiter"
             THEN parse_chunk_line_from(chars, i + 1, Append(stack, token.val))
             ELSE IF stack = <<>> THEN Panicked
             ELSE LET top_token == stack[Len(stack)]
                      open_delim == top_token.char
                      matching_close_delim == get_matching_close_delim(open_delim)
                  IN  IF token.val.char # matching_close_delim
                      THEN Err([expected |-> matching_close_delim,
                                found |-> token.val.char,
                                stack |-> stack])
                      ELSE parse_chunk_line_from(chars, i + 1,
                                                 SubSeq(stack, 1, Len(stack) - 1))

\* parse_chunk_line
parse_chunk_line(chunk_line) == parse_chunk_line_from(chunk_line, 1, <<>>)

InitChunks ==
    /\ prog = "day10"
    /\ pc = "call"
    /\ call_args \in SeqsUpTo({OPEN_DELIMS[i] : i \in DOMAIN OPEN_DELIMS}
                                 \cup {CLOSE_DELIMS[i] : i \in DOMAIN CLOSE_DELIMS},
                             MaxLineLen)
    /\ returned = NoResult
    /\ IdleRestOfCall

ParseChunkLine ==
    /\ prog = "day10"
    /\ pc = "call"
    /\ returned' = parse_chunk_line(call_args)
    /\ pc' = IF returned' = Panicked THEN "aborted" ELSE "returned"
    /\ UNCHANGED <<prog, call_args, restOfCall>>

NextChunks == ParseChunkLine

SpecChunks == InitChunks /\ [][NextChunks]_vars

IsOpener(c) == \E i \in DOMAIN OPEN_DELIMS : OPEN_DELIMS[i] = c

CloserOf(c) == CHOOSE d \in {")", "]", "}", ">"} : <<c, d>> \in
                   {<<"(", ")">>, <<"[", "]">>, <<"{", "}">>, <<"<", ">">>}

\* what is left of a string of delimiters when every opener directly
\* followed by its own closer is struck out, again and again
RECURSIVE Residue(_)
Residue(chars) ==
    LET pairs == {i \in 1 .. Len(chars) - 1 :
                     IsOpener(chars[i]) /\ chars[i + 1] = CloserOf(chars[i])}
    IN  IF pairs = {} THEN chars
        ELSE LET i == CHOOSE j \in pairs : TRUE
             IN  Residue(SubSeq(chars, 1, i - 1) \o SubSeq(chars, i + 2, Len(chars)))

\* the unclosed openers of the first k characters, in opening order, where
\* those characters leave nothing but openers
Unclosed(chars, k) == Residue(SubSeq(chars, 1, k))

OnlyOpeners(chars) == \A i \in DOMAIN chars : IsOpener(chars[i])

\* the positions of a closer that meets no open chunk, and of a closer that
\* does not match the most recent unclosed opener
Unopened(chars) ==
    {k \in DOMAIN chars : ~IsOpener(chars[k]) /\ Unclosed(chars, k - 1) = <<>>}

Mismatched(chars) ==
    {k \in DOMAIN chars :
        /\ ~IsOpener(chars[k])
        /\ \E open \in {Unclosed(chars, k - 1)} :
               /\ open # <<>>
               /\ OnlyOpeners(open)
               /\ chars[k] # CloserOf(open[Len(open)])}

OpenTokens(chars) == [i \in DOMAIN chars |-> [kind |-> "OpenDelimiter", char |-> chars[i]]]

(***************************************************************************)
(* C15.  For every line over the eight delimiter characters in which no    *)
(* closing delimiter occurs while no chunk is open, parse_chunk_line       *)
(* returns Err(CorruptedLine{expected, found, stack}) at the first closing *)
(* delimiter that does not match the most recent unclosed opener: expected *)
(* is the closer of that opener, found is the offending character, stack   *)
(* holds the unclosed openers in opening order with the mismatched opener  *)
(* still on top.  If there is no such character it returns Ok(stack) with  *)
(* the unclosed openers in opening order, which is empty exactly when the  *)
(* line is balanced.                                                       *)
(***************************************************************************)
C15_ParseChunkLine ==
    (prog = "day10" /\ pc # "call" /\ Unopened(call_args) = {}) =>
        \E mismatched \in {Mismatched(call_args)} :
            IF mismatched # {}
            THEN \E k \in {SetMin(mismatched)} :
                 \E open \in {Unclosed(call_args, k - 1)} :
                     returned = Err([expected |-> CloserOf(open[Len(open)]),
                                     found |-> call_args[k],
                                     stack |-> OpenTokens(open)])
            ELSE /\ returned = Ok(OpenTokens(Residue(call_args)))
                 /\ (returned.val = <<>>) <=> (Residue(call_args) = <<>>)

\* a corrupted line in which a chunk was closed before the mismatch
C15_Witness ==
    /\ prog = "day10"
    /\ pc = "returned"
    /\ Unopened(call_args) = {}
    /\ returned.kind = "Err"
    /\ returned.val.stack # <<>>
    /\ \E k \in DOMAIN call_args :
           /\ call_args[k] = returned.val.found
           /\ k > Len(returned.val.stack) + 2
           /\ returned.val.expected # returned.val.found

=============================================================================
